---- MODULE Spec2Model ----
(***************************************************************************)
(* Control plane of examiner-ctm: CollapseDetector, the orchestrator's     *)
(* pause handling (UnifiedTrainer.log_metrics / train_parallel) and the    *)
(* AutoGroundingManager with the ViabilityMonitor's grounding-event ledger.*)
(*                                                                         *)
(* Numbers: rewards and losses are small integers (the trend is            *)
(* min-max normalised, so only their order and ratios matter); a trend is  *)
(* the exact rational num/den of the least-squares slope; thresholds and   *)
(* margins are integers in units of 1/ThresholdScale and 1/MarginScale;    *)
(* time is an integer number of seconds.                                   *)
(***************************************************************************)
EXTENDS Integers, Sequences, FiniteSets, TLC

\* ------------------------------------------------------------------ bounds
\* Scaled-down CollapseDetector windows (the constructor's parameters).
CentralWindow == 5
CentralTrend == 5
CentralMin == 5
PillarWindow == 4
PillarTrend == 4
PillarMin == 2
\* Largest steps argument of train_parallel and number of training cycles
\* (log_metrics calls) explored in the orchestrator.
MaxTrainSteps == 7
MaxCycles == 7
\* Window of the stand-alone detector of SpecDetector.
DetWindow == 3
DetTrend == 3
DetMin == 2
\* Number of record() calls explored on the stand-alone detector.
MaxRecords == 6
\* Scaled-down ViabilityMonitor window (deque maxlen).
ViabilityWindow == 3
\* Number of check_and_inject calls, largest warning count passed to them
\* and number of clock ticks explored.
MaxCalls == 2
MaxWarning == 3
MaxTicks == 2
\* Scaled-down sample thresholds of the ViabilityMonitor: trailing samples of
\* the degradation rates (20) and of the frequencies (50), samples a
\* frequency needs (10), history a correlation needs (50), steps between
\* adaptive weight updates (500).
TrailShort == 2
TrailLong == 3
RateMin == 3
CorrMin == 2
UpdateEvery == 1
\* Number of monitor calls and of check_viability calls explored.
MaxMonitorOps == 7
MaxChecks == 2
\* Scaled-down SigmaWatchdog history length (history_max_len, 100) and the
\* number of watchdog calls explored.
SwHistoryMax == 3
MaxSwOps == 4
\* Largest parameter value a specialist starts with and number of ring
\* synchronisation passes explored.
MaxParam == 1
MaxPasses == 2
\* Number of hub merges and ring passes explored after a checkpoint load.
MaxMerges == 2
\* Number of checkpoint operations (save, load, watchdog check) explored.
MaxCkOps == 3

\* -------------------------------------------------------- program constants
ThresholdScale == 1000
CentralDecline == -10
CentralStable == 20
CentralWarnings == 3
PillarDecline == -15
PillarStable == 25
PillarWarnings == 5
DetWarnings == 3
ViabilityEvery == 10
ContextCooldown == 60
AdvisorCooldown == 120
MarginScale == 100
CriticalMargin == -50
ModerateMargin == -30
LightMargin == -10
DegradationMin == 2
SignificantPenalty == -2
ThresholdWarning == -10
ThresholdSoft == -15
ThresholdHard == -20
ConsecutiveHardRequired == 3
LogDetSentinel == -999

\* ------------------------------------------------------------------ helpers
Nothing == {}

Some(v) == {v}

TheValue(o) == CHOOSE v \in o : TRUE

Last(s) == s[Len(s)]

\* collections.deque(maxlen=n).append
DequeAppend(s, v, n) ==
  IF Len(s) >= n THEN Append(SubSeq(s, 2, Len(s)), v) ELSE Append(s, v)

\* list(seq)[-k:]
Tail_(s, k) == IF Len(s) <= k THEN s ELSE SubSeq(s, Len(s) - k + 1, Len(s))

SumSeq(s) ==
  LET sum[i \in 0..Len(s)] == IF i = 0 THEN 0 ELSE sum[i - 1] + s[i]
  IN  sum[Len(s)]

MaxOf(s) == CHOOSE m \in {s[i] : i \in 1..Len(s)} : \A i \in 1..Len(s) : s[i] <= m

MinOf(s) == CHOOSE m \in {s[i] : i \in 1..Len(s)} : \A i \in 1..Len(s) : s[i] >= m

\* ---------------------------------------------------------- trend estimator
ZeroTrend == [num |-> 0, den |-> 1]

NoTrend == [num |-> 0, den |-> 0]

\* numerator of the slope: n*Sum(x*y) - Sum(x)*Sum(y), x = 0..n-1
SlopeNum(values) ==
  LET n == Len(values)
  IN  n * SumSeq([i \in 1..n |-> (i - 1) * values[i]])
        - SumSeq([i \in 1..n |-> i - 1]) * SumSeq(values)

\* denominator n*Sum(x^2) - Sum(x)^2, x = 0..n-1
SlopeDen(values) ==
  LET n == Len(values)
  IN  n * SumSeq([i \in 1..n |-> (i - 1) * (i - 1)])
        - SumSeq([i \in 1..n |-> i - 1]) * SumSeq([i \in 1..n |-> i - 1])

\* CollapseDetector._compute_trend: least-squares slope of the min-max
\* normalised values; 0 for fewer than 2 values or a constant series.
ComputeTrend(values) ==
  IF Len(values) < 2 THEN ZeroTrend
  ELSE IF MaxOf(values) = MinOf(values) THEN ZeroTrend
  ELSE [num |-> SlopeNum(values),
        den |-> SlopeDen(values) * (MaxOf(values) - MinOf(values))]

\* trend < t / ThresholdScale   (den > 0)
TrendBelow(tr, t) == ThresholdScale * tr.num < t * tr.den

\* abs(trend) < t / ThresholdScale
TrendAbsBelow(tr, t) ==
  /\ ThresholdScale * tr.num < t * tr.den
  /\ ThresholdScale * (0 - tr.num) < t * tr.den

\* -------------------------------------------------------- CollapseDetector
\* CollapseDetector.__init__: configuration and fresh detection state.
NewDetector(w, t, m, dec, stab, cw, ap, hook, pcb) ==
  [window_size |-> w, trend_window |-> t, min_samples |-> m,
   reward_decline_threshold |-> dec, loss_stable_threshold |-> stab,
   consecutive_warnings |-> cw, auto_pause |-> ap,
   intervention_callback |-> hook, pause_callback |-> pcb,
   rewards |-> << >>, losses |-> << >>,
   reward_trend |-> NoTrend, loss_trend |-> NoTrend,
   warning_count |-> 0, total_warnings |-> 0,
   is_paused |-> FALSE, pause_step |-> Nothing,
   total_samples |-> 0, pauses_triggered |-> 0,
   optimal_step_estimate |-> Nothing, first_warning_step |-> Nothing]

\* reward_declining and loss_stable (collapse_detector.py 215-218)
SignatureDetected(D, rt, lt) ==
  /\ TrendBelow(rt, D.reward_decline_threshold)
  /\ (TrendAbsBelow(lt, D.loss_stable_threshold) \/ lt.num < 0)

\* the "if signature_detected:" bookkeeping (231-243)
CountWarning_Once(D, step) ==
  [D EXCEPT !.warning_count = @ + 1,
            !.total_warnings = @ + 1,
            !.first_warning_step = IF @ = Nothing THEN Some(step) ELSE @,
            !.optimal_step_estimate =
               IF @ = Nothing THEN Some(step - D.trend_window) ELSE @]

CountWarning(D, step) ==
  [D EXCEPT !.warning_count = @ + 1,
            !.total_warnings = @ + 1,
            !.first_warning_step = IF @ = Nothing THEN Some(step) ELSE @,
            !.optimal_step_estimate =
               IF D.warning_count + 1 = 1 THEN Some(step - D.trend_window) ELSE @]

\* the else branch: reset the consecutive count (268-272)
ResetWarnings_Keep(D) == D

ResetWarnings(D) == [D EXCEPT !.warning_count = 0]

\* guard of the pre-pause intervention hook (248)
HookInvoked_AtLimit(D) ==
  D.intervention_callback /\ D.warning_count <= D.consecutive_warnings

HookInvoked(D) ==
  D.intervention_callback /\ D.warning_count < D.consecutive_warnings

\* the hook call without its try / except
CallHook_Unguarded(invoked, outcome) ==
  [error |-> invoked /\ outcome = "raise", raised |-> invoked /\ outcome = "raise"]

\* try: self.intervention_callback(...) except Exception: print(...) (249-260).
\* outcome is what the callback does; error: it raised; raised: the
\* exception leaves _check_collapse_signature
CallHook(invoked, outcome) ==
  [error |-> invoked /\ outcome = "raise", raised |-> FALSE]

\* guard of the pause (263-266)
ShouldPause_Again(D) ==
  /\ D.warning_count >= D.consecutive_warnings
  /\ D.auto_pause

ShouldPause_Early(D) ==
  /\ D.warning_count >= D.consecutive_warnings - 1
  /\ D.auto_pause
  /\ ~D.is_paused

ShouldPause(D) ==
  /\ D.warning_count >= D.consecutive_warnings
  /\ D.auto_pause
  /\ ~D.is_paused

\* CollapseDetector._trigger_pause, up to the pause callback (277-283)
TriggerPause(D, step) ==
  [D EXCEPT !.is_paused = TRUE,
            !.pause_step = Some(step),
            !.pauses_triggered = @ + 1]

\* CollapseDetector._check_collapse_signature.  Returns the detector after
\* the check together with what it asks of its callbacks: hook = the
\* intervention callback is invoked (with warning_count), paused =
\* _trigger_pause ran (the pause callback, if any, is invoked with step).
CheckCollapseSignature(D, step, rt, lt) ==
  IF SignatureDetected(D, rt, lt)
  THEN LET D1 == CountWarning(D, step)
           P  == ShouldPause(D1)
       IN  [d |-> IF P THEN TriggerPause(D1, step) ELSE D1,
            evaluated |-> TRUE, signature |-> TRUE,
            hook |-> HookInvoked(D1), paused |-> P,
            pause_recommended |-> D1.warning_count >= D1.consecutive_warnings,
            hook_args |-> IF HookInvoked(D1)
                          THEN Some([step |-> step, warning_count |-> D1.warning_count,
                                     reward_trend |-> rt, loss_trend |-> lt])
                          ELSE Nothing]
  ELSE [d |-> ResetWarnings(D),
        evaluated |-> TRUE, signature |-> FALSE,
        hook |-> FALSE, paused |-> FALSE, pause_recommended |-> FALSE,
        hook_args |-> Nothing]

NotEvaluated(D) ==
  [d |-> D, evaluated |-> FALSE, signature |-> FALSE,
   hook |-> FALSE, paused |-> FALSE, pause_recommended |-> FALSE,
   hook_args |-> Nothing]

\* CollapseDetector.record.  loss is Nothing for a missing / NaN loss.
Record(D, step, reward, loss) ==
  IF loss = Nothing /\ D.losses = << >>
  THEN NotEvaluated(D)
  ELSE LET l  == IF loss = Nothing THEN Last(D.losses) ELSE TheValue(loss)
           D1 == [D EXCEPT !.rewards = DequeAppend(@, reward, D.window_size),
                           !.losses = DequeAppend(@, l, D.window_size),
                           !.total_samples = @ + 1]
       IN  IF Len(D1.rewards) >= D1.min_samples
           THEN LET rt == ComputeTrend(Tail_(D1.rewards, D1.trend_window))
                    lt == ComputeTrend(Tail_(D1.losses, D1.trend_window))
                IN  CheckCollapseSignature(
                      [D1 EXCEPT !.reward_trend = rt, !.loss_trend = lt],
                      step, rt, lt)
           ELSE NotEvaluated(D1)

\* CollapseDetector.resume
Resume(D) == [D EXCEPT !.is_paused = FALSE, !.warning_count = 0]

\* ------------------------------------------------------------ SigmaWatchdog
\* SigmaWatchdog.__init__: the specialists' domains plus "CENTRAL"
SwDomains == {"LOGOS", "CENTRAL"}

NewWatchdog ==
  [history |-> [dm \in SwDomains |-> << >>],
   consecutive_hard_violations |-> [dm \in SwDomains |-> 0],
   intervention_counts |-> [dm \in SwDomains |-> [warning |-> 0, soft |-> 0, hard |-> 0]]]

\* An activation batch is described by its number of vectors N and by what
\* torch.logdet does on its regularised Gram matrix: a finite value (whole
\* numbers stand for the floats), NaN, an infinity, or a RuntimeError.
Batch(n, kind, value) == [n |-> n, kind |-> kind, value |-> value]

\* compute_gram_log_det without the NaN / infinity / RuntimeError guard: the
\* unusable log-determinant is passed on as a healthy 0.0
ComputeGramLogDet_Unguarded(activations) ==
  IF activations.n < 2 THEN 0
  ELSE IF activations.kind = "finite" THEN activations.value
  ELSE 0

\* SigmaWatchdog.compute_gram_log_det
ComputeGramLogDet(activations) ==
  IF activations.n < 2 THEN 0
  ELSE IF activations.kind = "finite" THEN activations.value
  ELSE LogDetSentinel

\* SigmaWatchdog.check that ends the streak once it has fired HARD
Check_SelfReset(S, domain, activations) ==
  LET log_det == ComputeGramLogDet(activations)
      h  == Append(S.history[domain], log_det)
      S1 == [S EXCEPT !.history[domain] = Tail_(h, SwHistoryMax)]
      n  == S.consecutive_hard_violations[domain] + 1
  IN  IF log_det < ThresholdHard
      THEN IF n >= ConsecutiveHardRequired
           THEN [s |-> [S1 EXCEPT !.consecutive_hard_violations[domain] = 0,
                                  !.intervention_counts[domain].hard = @ + 1],
                 intervention |-> "hard", penalty |-> FALSE, log_det |-> log_det]
           ELSE [s |-> [S1 EXCEPT !.consecutive_hard_violations[domain] = n,
                                  !.intervention_counts[domain].soft = @ + 1],
                 intervention |-> "soft", penalty |-> TRUE, log_det |-> log_det]
      ELSE IF log_det < ThresholdSoft
      THEN [s |-> [S1 EXCEPT !.consecutive_hard_violations[domain] = 0,
                             !.intervention_counts[domain].soft = @ + 1],
            intervention |-> "soft", penalty |-> TRUE, log_det |-> log_det]
      ELSE IF log_det < ThresholdWarning
      THEN [s |-> [S1 EXCEPT !.consecutive_hard_violations[domain] = 0,
                             !.intervention_counts[domain].warning = @ + 1],
            intervention |-> "warning", penalty |-> FALSE, log_det |-> log_det]
      ELSE [s |-> [S1 EXCEPT !.consecutive_hard_violations[domain] = 0],
            intervention |-> "ok", penalty |-> FALSE, log_det |-> log_det]

\* SigmaWatchdog.check: the watchdog after the call, the intervention level
\* and whether a penalty tensor is returned
Check(S, domain, activations) ==
  LET log_det == ComputeGramLogDet(activations)
      h  == Append(S.history[domain], log_det)
      S1 == [S EXCEPT !.history[domain] = Tail_(h, SwHistoryMax)]
      n  == S.consecutive_hard_violations[domain] + 1
  IN  IF log_det < ThresholdHard
      THEN IF n >= ConsecutiveHardRequired
           THEN [s |-> [S1 EXCEPT !.consecutive_hard_violations[domain] = n,
                                  !.intervention_counts[domain].hard = @ + 1],
                 intervention |-> "hard", penalty |-> FALSE, log_det |-> log_det]
           ELSE [s |-> [S1 EXCEPT !.consecutive_hard_violations[domain] = n,
                                  !.intervention_counts[domain].soft = @ + 1],
                 intervention |-> "soft", penalty |-> TRUE, log_det |-> log_det]
      ELSE IF log_det < ThresholdSoft
      THEN [s |-> [S1 EXCEPT !.consecutive_hard_violations[domain] = 0,
                             !.intervention_counts[domain].soft = @ + 1],
            intervention |-> "soft", penalty |-> TRUE, log_det |-> log_det]
      ELSE IF log_det < ThresholdWarning
      THEN [s |-> [S1 EXCEPT !.consecutive_hard_violations[domain] = 0,
                             !.intervention_counts[domain].warning = @ + 1],
            intervention |-> "warning", penalty |-> FALSE, log_det |-> log_det]
      ELSE [s |-> [S1 EXCEPT !.consecutive_hard_violations[domain] = 0],
            intervention |-> "ok", penalty |-> FALSE, log_det |-> log_det]

\* SigmaWatchdog.should_hard_reset
ShouldHardReset(S, domain) ==
  S.consecutive_hard_violations[domain] >= ConsecutiveHardRequired

\* SigmaWatchdog.reset_domain
ResetDomain(S, domain) ==
  [S EXCEPT !.consecutive_hard_violations[domain] = 0, !.history[domain] = << >>]

\* the trainer's monitoring block that forgets to reset the watchdog
MonitorModel_NoReset(S, domain, activations) == Check(S, domain, activations)

\* UnifiedTrainer: the monitoring block after a specialist's training step
\* (2125-2140) and after the hub merge for the central model (1559-1574):
\* check, then on HARD reinitialise the model and reset the watchdog's domain
MonitorModel(S, domain, activations) ==
  LET r == Check(S, domain, activations)
  IN  IF r.intervention = "hard" /\ ShouldHardReset(r.s, domain)
      THEN [r EXCEPT !.s = ResetDomain(r.s, domain)]
      ELSE r

\* --------------------------------------- ViabilityMonitor: grounding ledger
\* ViabilityMonitor.__init__ (the part the grounding manager writes to)
NewViability == [grounding_events |-> << >>, step_counter |-> 0]

\* record_grounding_event that appends a new entry for every event
RecordGroundingEvent_NoMerge(V, event_type) ==
  [V EXCEPT !.grounding_events =
               DequeAppend(@, [step |-> V.step_counter, count |-> 1,
                               types |-> <<event_type>>], ViabilityWindow)]

\* ViabilityMonitor.record_grounding_event: events of the current step are
\* merged into the last entry, otherwise a new entry is appended.
RecordGroundingEvent(V, event_type) ==
  IF V.grounding_events # << >> /\ Last(V.grounding_events).step = V.step_counter
  THEN [V EXCEPT !.grounding_events[Len(V.grounding_events)] =
                    [@ EXCEPT !.count = @ + 1, !.types = Append(@, event_type)]]
  ELSE [V EXCEPT !.grounding_events =
                    DequeAppend(@, [step |-> V.step_counter, count |-> 1,
                                    types |-> <<event_type>>], ViabilityWindow)]

\* ViabilityMonitor.increment_step
IncrementStep(V) == [V EXCEPT !.step_counter = @ + 1]

\* number of grounding events in the ledger
RECURSIVE EventCount(_)
EventCount(evs) == IF evs = << >> THEN 0 ELSE evs[1].count + EventCount(Tail(evs))

\* ------------------------------------------ ViabilityMonitor: E(t) and check
\* Exact rationals [num, den] in lowest terms with den > 0 stand for the
\* floats of the monitor.
Abs(n) == IF n < 0 THEN -n ELSE n

RECURSIVE GCD(_, _)
GCD(a, b) == IF b = 0 THEN a ELSE GCD(b, a % b)

Rat(n, dn) == LET g == GCD(Abs(n), dn) IN [num |-> n \div g, den |-> dn \div g]

RZero == Rat(0, 1)

RAdd(a, b) == Rat(a.num * b.den + b.num * a.den, a.den * b.den)

RSub(a, b) == Rat(a.num * b.den - b.num * a.den, a.den * b.den)

RMul(a, b) == Rat(a.num * b.num, a.den * b.den)

RLess(a, b) == a.num * b.den < b.num * a.den

Components == {"e1_semantic_degradation", "e2_penalty_frequency",
               "e3_hallucination", "e4_ood_degradation"}

\* ViabilityMonitor.__init__; of c_eff_history and e_total_history only the
\* last element is ever read (get_status), so only it is kept.
NewMonitor ==
  [grounding_events |-> << >>, step_counter |-> 0,
   c_eff_last |-> Nothing, e_total_last |-> Nothing,
   semantic_rewards |-> << >>, grounding_penalties |-> << >>,
   hallucination_counts |-> << >>, ood_accuracy |-> << >>,
   history |-> [c \in Components |-> << >>],
   weights |-> [c \in Components |-> Rat(1, 4)],
   violations |-> << >>,
   collapse_indicators |-> << >>,
   last_weight_update |-> 0,
   component_correlations |-> [c \in Components |-> << >>]]

\* ViabilityMonitor.compute_c_eff: events held in the ledger divided by the
\* number of per-step entries the ledger holds.
CEff(V) ==
  IF Len(V.grounding_events) = 0 THEN RZero
  ELSE Rat(EventCount(V.grounding_events), Len(V.grounding_events))

ComputeCEff(V) ==
  IF Len(V.grounding_events) = 0 THEN V
  ELSE [V EXCEPT !.c_eff_last = Some(CEff(V))]

\* max(0, recent[0] - recent[-1]) / len(recent) over the last TrailShort samples
Degradation(series) ==
  IF Len(series) >= DegradationMin
  THEN LET recent == Tail_(series, TrailShort)
       IN  IF Len(recent) >= DegradationMin
           THEN Rat(IF recent[1] - Last(recent) > 0
                    THEN recent[1] - Last(recent) ELSE 0, Len(recent))
           ELSE RZero
  ELSE RZero

\* ViabilityMonitor.record_semantic_reward (E1)
RecordSemanticReward(V, reward) ==
  LET s == DequeAppend(V.semantic_rewards, reward, ViabilityWindow)
  IN  [V EXCEPT !.semantic_rewards = s,
                !.history["e1_semantic_degradation"] =
                   DequeAppend(@, Degradation(s), ViabilityWindow)]

\* share of hits (flags 1) among the last TrailLong samples, once RateMin
\* samples exist
Frequency(flags) ==
  IF Len(flags) >= RateMin
  THEN LET recent == Tail_(flags, TrailLong)
       IN  Rat(SumSeq(recent), Len(recent))
  ELSE RZero

\* record_grounding_penalty that computes the frequency from the first sample
RecordGroundingPenalty_Early(V, penalty) ==
  LET s == DequeAppend(V.grounding_penalties, penalty, ViabilityWindow)
      recent == Tail_(s, TrailLong)
  IN  [V EXCEPT !.grounding_penalties = s,
                !.history["e2_penalty_frequency"] =
                   DequeAppend(@, Rat(Cardinality({i \in 1..Len(recent) :
                                                     recent[i] < SignificantPenalty}),
                                      Len(recent)), ViabilityWindow)]

\* ViabilityMonitor.record_grounding_penalty (E2); penalties in tenths
RecordGroundingPenalty(V, penalty) ==
  LET s == DequeAppend(V.grounding_penalties, penalty, ViabilityWindow)
  IN  [V EXCEPT !.grounding_penalties = s,
                !.history["e2_penalty_frequency"] =
                   DequeAppend(@, Frequency([i \in 1..Len(s) |->
                                               IF s[i] < SignificantPenalty THEN 1 ELSE 0]),
                               ViabilityWindow)]

\* ViabilityMonitor.record_hallucination (E3)
RecordHallucination(V, is_hallucination) ==
  LET s == DequeAppend(V.hallucination_counts,
                       IF is_hallucination THEN 1 ELSE 0, ViabilityWindow)
  IN  [V EXCEPT !.hallucination_counts = s,
                !.history["e3_hallucination"] =
                   DequeAppend(@, Frequency(s), ViabilityWindow)]

\* ViabilityMonitor.record_ood_accuracy (E4)
RecordOodAccuracy(V, accuracy) ==
  LET s == DequeAppend(V.ood_accuracy, accuracy, ViabilityWindow)
  IN  [V EXCEPT !.ood_accuracy = s,
                !.history["e4_ood_degradation"] =
                   DequeAppend(@, Degradation(s), ViabilityWindow)]

\* ViabilityMonitor.record_collapse_indicator
RecordCollapseIndicator(V, is_collapsing) ==
  [V EXCEPT !.collapse_indicators =
               DequeAppend(@, IF is_collapsing THEN 1 ELSE 0, ViabilityWindow)]

\* components dictionary of compute_e_total
ComponentsOf(V) ==
  [c \in Components |-> IF V.history[c] = << >> THEN RZero ELSE Last(V.history[c])]

WeightedSum(weights, comps) ==
  RAdd(RAdd(RMul(weights["e1_semantic_degradation"], comps["e1_semantic_degradation"]),
            RMul(weights["e2_penalty_frequency"], comps["e2_penalty_frequency"])),
       RAdd(RMul(weights["e3_hallucination"], comps["e3_hallucination"]),
            RMul(weights["e4_ood_degradation"], comps["e4_ood_degradation"])))

\* ViabilityMonitor.compute_e_total
ComputeETotal(V) ==
  [V EXCEPT !.e_total_last = Some(WeightedSum(V.weights, ComponentsOf(V)))]

\* the attribute name computed at line 242 for each component
HistoryAttribute ==
  [c \in Components |->
     CASE c = "e1_semantic_degradation" -> "e1_historysemantic_historydegradation"
       [] c = "e2_penalty_frequency"    -> "e2_historypenalty_historyfrequency"
       [] c = "e3_hallucination"        -> "e3_historyhallucination"
       [] c = "e4_ood_degradation"      -> "e4_historyood_historydegradation"]

\* the attributes a ViabilityMonitor has (set in __init__)
Attributes ==
  {"window_size", "log_file", "grounding_events", "c_eff_history",
   "semantic_rewards", "e1_history", "grounding_penalties", "e2_history",
   "hallucination_counts", "e3_history", "ood_accuracy", "e4_history",
   "weights", "e_total_history", "violations", "step_counter",
   "collapse_indicators", "weight_update_frequency", "last_weight_update",
   "component_correlations"}

\* an update that rewrites the weights of the components that have history
UpdateAdaptiveWeights_Rewrites(V) ==
  [v |-> [V EXCEPT !.weights =
             [c \in Components |-> IF Len(V.history[c]) >= CorrMin
                                   THEN Rat(1, 1) ELSE @[c]]],
   raised |-> FALSE]

\* ViabilityMonitor.update_adaptive_weights: returns at once with too few
\* collapse indicators; otherwise the getattr of line 242 is evaluated for
\* the first component, and it raises AttributeError when the computed name
\* is not an attribute, before any weight or correlation is written.
UpdateAdaptiveWeights(V) ==
  IF Len(V.collapse_indicators) < CorrMin THEN [v |-> V, raised |-> FALSE]
  ELSE [v |-> V,
        raised |-> \E c \in Components : HistoryAttribute[c] \notin Attributes]

\* result dictionary of check_viability
ViabilityResult(V) ==
  LET c_eff   == CEff(V)
      comps   == ComponentsOf(V)
      e_total == WeightedSum(V.weights, comps)
      margin  == RSub(c_eff, e_total)
  IN  [viable |-> ~RLess(margin, RZero), c_eff |-> c_eff, e_total |-> e_total,
       margin |-> margin, components |-> comps, weights |-> V.weights]

\* check_viability that also records a zero margin as a violation
CheckViability_Inclusive(V) ==
  LET r  == ViabilityResult(V)
      V1 == ComputeETotal(ComputeCEff(V))
      V2 == IF r.margin.num <= 0
            THEN [V1 EXCEPT !.violations =
                     Append(@, [step |-> V.step_counter, c_eff |-> r.c_eff,
                                e_total |-> r.e_total, margin |-> r.margin])]
            ELSE V1
      u  == UpdateAdaptiveWeights(V2)
  IN  IF V2.step_counter - V2.last_weight_update >= UpdateEvery
      THEN IF u.raised THEN u
           ELSE [v |-> [u.v EXCEPT !.last_weight_update = V2.step_counter],
                 raised |-> FALSE]
      ELSE [v |-> V2, raised |-> FALSE]

\* ViabilityMonitor.check_viability: the monitor after the call and whether
\* the call raised instead of returning ViabilityResult(V)
CheckViability(V) ==
  LET r  == ViabilityResult(V)
      V1 == ComputeETotal(ComputeCEff(V))
      V2 == IF ~r.viable
            THEN [V1 EXCEPT !.violations =
                     Append(@, [step |-> V.step_counter, c_eff |-> r.c_eff,
                                e_total |-> r.e_total, margin |-> r.margin])]
            ELSE V1
      u  == UpdateAdaptiveWeights(V2)
  IN  IF V2.step_counter - V2.last_weight_update >= UpdateEvery
      THEN IF u.raised THEN u
           ELSE [v |-> [u.v EXCEPT !.last_weight_update = V2.step_counter],
                 raised |-> FALSE]
      ELSE [v |-> V2, raised |-> FALSE]

\* ------------------------------------------------------ AutoGroundingManager
\* AutoGroundingManager.__init__
NewManager ==
  [last_context_injection |-> 0, last_advisor_injection |-> 0,
   interventions |-> [context |-> 0, advisor |-> 0, combined |-> 0,
                      fallback_to_advisor |-> 0, fallback_to_context |-> 0],
   intervention_history |-> << >>]

\* self.pillar_preferences.get(domain, 'context')
PillarPreference(domain) ==
  IF domain \in {"LOGOS", "SOPHIA", "NOMOS", "PSYCHE"} THEN "advisor" ELSE "context"

\* AutoGroundingManager._log_intervention (the in-memory history; an entry's
\* timestamp and step are not kept)
LogIntervention(M, result) ==
  [M EXCEPT !.intervention_history =
      Append(@, [type |-> result.type])]

\* the cooldown gate of a remedy (270-273, 333-336)
OnCooldown_Never(force, t, last, cooldown) == FALSE

OnCooldown(force, t, last, cooldown) == ~force /\ t - last < cooldown

\* what a failed backend call leaves behind (281-283, 345-347): nothing
BackendFailed_Stamps(Wd, remedy) ==
  [Wd EXCEPT !.ag.last_context_injection =
                 IF remedy = "context" THEN Wd.now ELSE @,
             !.ag.last_advisor_injection =
                 IF remedy = "advisor" THEN Wd.now ELSE @]

BackendFailed(Wd, remedy) == Wd

\* AutoGroundingManager._inject_context.  W = [ag, vm, now]; outcome is what
\* search_web does ("ok" or "raise").
InjectContext(W, step, domain, reason, force, outcome) ==
  IF OnCooldown(force, W.now, W.ag.last_context_injection, ContextCooldown)
  THEN [w |-> W, result |-> Nothing, status |-> "cooldown"]
  ELSE IF outcome = "raise"
  THEN [w |-> BackendFailed(W, "context"), result |-> Nothing,
        status |-> "raise"]
  ELSE LET result == [type |-> "context", reason |-> reason, step |-> step,
                      domain |-> domain, context |-> "text", advice |-> "absent"]
           M1 == [W.ag EXCEPT !.last_context_injection = W.now,
                              !.interventions.context = @ + 1]
       IN  [w |-> [ag |-> LogIntervention(M1, result),
                   vm |-> RecordGroundingEvent(W.vm, "emergency_context"),
                   now |-> W.now],
            result |-> Some(result), status |-> "ok"]

InjectAdvisor_Uncounted(W, step, domain, reason, force, outcome) ==
  IF OnCooldown(force, W.now, W.ag.last_advisor_injection, AdvisorCooldown)
  THEN [w |-> W, result |-> Nothing, status |-> "cooldown"]
  ELSE IF outcome = "raise"
  THEN [w |-> BackendFailed(W, "advisor"), result |-> Nothing,
        status |-> "raise"]
  ELSE LET result == [type |-> "advisor", reason |-> reason, step |-> step,
                      domain |-> domain, context |-> "absent", advice |-> "text"]
           M1 == [W.ag EXCEPT !.last_advisor_injection = W.now]
       IN  [w |-> [ag |-> LogIntervention(M1, result),
                   vm |-> RecordGroundingEvent(W.vm, "emergency_advisor"),
                   now |-> W.now],
            result |-> Some(result), status |-> "ok"]

\* AutoGroundingManager._inject_advisor
InjectAdvisor(W, step, domain, reason, force, outcome) ==
  IF OnCooldown(force, W.now, W.ag.last_advisor_injection, AdvisorCooldown)
  THEN [w |-> W, result |-> Nothing, status |-> "cooldown"]
  ELSE IF outcome = "raise"
  THEN [w |-> BackendFailed(W, "advisor"), result |-> Nothing,
        status |-> "raise"]
  ELSE LET result == [type |-> "advisor", reason |-> reason, step |-> step,
                      domain |-> domain, context |-> "absent", advice |-> "text"]
           M1 == [W.ag EXCEPT !.last_advisor_injection = W.now,
                              !.interventions.advisor = @ + 1]
       IN  [w |-> [ag |-> LogIntervention(M1, result),
                   vm |-> RecordGroundingEvent(W.vm, "emergency_advisor"),
                   now |-> W.now],
            result |-> Some(result), status |-> "ok"]

\* a remedy that was not called at all
NotTried == "skip"

Attempt(r) == r.status

\* the fallback counters of _inject_pillar_preferred (226-227, 240-241)
CountFallback_Always(M, which, r) ==
  [M EXCEPT !.interventions[which] = @ + 1]

CountFallback(M, which, r) ==
  IF r.result # Nothing THEN [M EXCEPT !.interventions[which] = @ + 1] ELSE M

\* whether the alternative remedy is tried (223, 237)
TryAlternative(r) == r.result = Nothing

\* AutoGroundingManager._inject_pillar_preferred.  in = [oc, oa]:
\* outcome of the search call and of the advisor call.
InjectPillarPreferred(W, step, domain, reason, in) ==
  IF PillarPreference(domain) = "advisor"
  THEN LET a == InjectAdvisor(W, step, domain, reason, FALSE, in.oa)
       IN  IF TryAlternative(a)
           THEN LET c == InjectContext(a.w, step, domain, reason, FALSE, in.oc)
                IN  [w |-> [c.w EXCEPT !.ag = CountFallback(@, "fallback_to_context", c)],
                     result |-> c.result, ctx |-> Attempt(c), adv |-> Attempt(a),
                     first |-> "advisor", force |-> FALSE]
           ELSE [w |-> a.w, result |-> a.result, ctx |-> NotTried,
                 adv |-> Attempt(a), first |-> "advisor", force |-> FALSE]
  ELSE LET c == InjectContext(W, step, domain, reason, FALSE, in.oc)
       IN  IF TryAlternative(c)
           THEN LET a == InjectAdvisor(c.w, step, domain, reason, FALSE, in.oa)
                IN  [w |-> [a.w EXCEPT !.ag = CountFallback(@, "fallback_to_advisor", a)],
                     result |-> a.result, ctx |-> Attempt(c), adv |-> Attempt(a),
                     first |-> "context", force |-> FALSE]
           ELSE [w |-> c.w, result |-> c.result, ctx |-> Attempt(c),
                 adv |-> NotTried, first |-> "context", force |-> FALSE]

InjectCombined_ShortCircuit(W, step, domain, reason, force, in) ==
  LET c == InjectContext(W, step, domain, reason, force, in.oc)
      a == IF c.result = Nothing
           THEN [w |-> c.w, result |-> Nothing, status |-> NotTried]
           ELSE InjectAdvisor(c.w, step, domain, reason, force, in.oa)
      result == [type |-> "combined", reason |-> reason, step |-> step,
                 domain |-> domain,
                 context |-> IF c.result # Nothing THEN "text" ELSE "none",
                 advice |-> IF a.result # Nothing THEN "text" ELSE "none"]
      M1 == [a.w.ag EXCEPT !.interventions.combined = @ + 1]
  IN  [w |-> [a.w EXCEPT !.ag = LogIntervention(M1, result)],
       result |-> Some(result), ctx |-> Attempt(c), adv |-> Attempt(a),
       first |-> "context", force |-> force]

\* AutoGroundingManager._inject_combined: both remedies, always a result
InjectCombined(W, step, domain, reason, force, in) ==
  LET c == InjectContext(W, step, domain, reason, force, in.oc)
      a == InjectAdvisor(c.w, step, domain, reason, force, in.oa)
      result == [type |-> "combined", reason |-> reason, step |-> step,
                 domain |-> domain,
                 context |-> IF c.result # Nothing THEN "text" ELSE "none",
                 advice |-> IF a.result # Nothing THEN "text" ELSE "none"]
      M1 == [a.w.ag EXCEPT !.interventions.combined = @ + 1]
  IN  [w |-> [a.w EXCEPT !.ag = LogIntervention(M1, result)],
       result |-> Some(result), ctx |-> Attempt(c), adv |-> Attempt(a),
       first |-> "context", force |-> force]

NoIntervention(W) ==
  [w |-> W, result |-> Nothing, ctx |-> NotTried, adv |-> NotTried,
   first |-> "none", force |-> FALSE]

WarningLadder_Eager(W, step, domain, warning_count, in) ==
  IF warning_count = 1
  THEN InjectPillarPreferred(W, step, domain, "collapse_warning_2", in)
  ELSE IF warning_count = 2
  THEN InjectCombined(W, step, domain, "collapse_critical", TRUE, in)
  ELSE IF warning_count >= 3
  THEN InjectCombined(W, step, domain, "collapse_critical", TRUE, in)
  ELSE NoIntervention(W)

\* Priority 2 of check_and_inject: the collapse-warning ladder (166-191)
WarningLadder(W, step, domain, warning_count, in) ==
  IF warning_count = 1 THEN NoIntervention(W)
  ELSE IF warning_count = 2
  THEN InjectPillarPreferred(W, step, domain, "collapse_warning_2", in)
  ELSE IF warning_count >= 3
  THEN InjectCombined(W, step, domain, "collapse_critical", TRUE, in)
  ELSE NoIntervention(W)

CheckAndInject_Inclusive(W, step, domain, viable, margin, warning_count, in) ==
  IF ~viable /\ margin <= CriticalMargin
  THEN InjectCombined(W, step, domain, "critical_viability", TRUE, in)
  ELSE IF ~viable /\ margin <= ModerateMargin
  THEN InjectPillarPreferred(W, step, domain, "moderate_viability", in)
  ELSE IF ~viable /\ margin <= LightMargin
  THEN InjectPillarPreferred(W, step, domain, "light_viability", in)
  ELSE WarningLadder(W, step, domain, warning_count, in)

CheckAndInject_FallThrough(W, step, domain, viable, margin, warning_count, in) ==
  LET v == IF ~viable /\ margin < CriticalMargin
           THEN InjectCombined(W, step, domain, "critical_viability", TRUE, in)
           ELSE IF ~viable /\ margin < ModerateMargin
           THEN InjectPillarPreferred(W, step, domain, "moderate_viability", in)
           ELSE IF ~viable /\ margin < LightMargin
           THEN InjectPillarPreferred(W, step, domain, "light_viability", in)
           ELSE NoIntervention(W)
  IN  IF v.result # Nothing THEN v
      ELSE WarningLadder(v.w, step, domain, warning_count, in)

\* AutoGroundingManager.check_and_inject.  margin is in 1/MarginScale.
CheckAndInject(W, step, domain, viable, margin, warning_count, in) ==
  IF ~viable /\ margin < CriticalMargin
  THEN InjectCombined(W, step, domain, "critical_viability", TRUE, in)
  ELSE IF ~viable /\ margin < ModerateMargin
  THEN InjectPillarPreferred(W, step, domain, "moderate_viability", in)
  ELSE IF ~viable /\ margin < LightMargin
  THEN InjectPillarPreferred(W, step, domain, "light_viability", in)
  ELSE WarningLadder(W, step, domain, warning_count, in)

\* ==================================================================== state
VARIABLES
  d,            \* a stand-alone CollapseDetector
  dlast,        \* what the last call on d did
  streak,       \* consecutive evaluated records of d that held the signature
  pause_calls,  \* steps the pause callback of d was invoked with
  records,      \* number of record() calls made on d
  W,            \* [ag, vm, now]: AutoGroundingManager, ViabilityMonitor, clock
  lastCall,     \* what the last check_and_inject returned and attempted
  calls,        \* number of check_and_inject calls made
  det,          \* UnifiedTrainer: collapse_detector and pillar_collapse_detectors
  trainer,      \* UnifiedTrainer: training_paused, global_train_step, ...
  loop,         \* position of train_parallel
  mon,          \* a stand-alone ViabilityMonitor
  vlast,        \* its last call, what check_viability returned, and the
                \* step of every grounding event recorded so far
  sw,           \* a SigmaWatchdog
  swlast,       \* its last call and result, and per model whether each check
                \* since the model's last reset breached the hard threshold
  ring,         \* UnifiedTrainer.specialist_branches: each specialist's state dict
  central,      \* UnifiedTrainer.model: the central model's state dict
  ringlast,     \* the last ring synchronisation pass
  ckpt,         \* the latest checkpoint file of checkpoint_dir, if any
  cklast        \* the last checkpoint operation, whether it raised, and the
                \* monitor state at the time of the last save

vars == <<d, dlast, streak, pause_calls, records, W, lastCall, calls,
          det, trainer, loop, mon, vlast, sw, swlast,
          ring, central, ringlast, ckpt, cklast>>

monVars == <<mon, vlast>>

swVars == <<sw, swlast>>

ringVars == <<ring, central, ringlast>>

ckptVars == <<ckpt, cklast>>

trainVars == <<det, trainer, loop>>

detVars == <<d, dlast, streak, pause_calls, records>>

groundVars == <<W, lastCall, calls>>

\* rewards and losses a caller reports; a missing or NaN loss is Nothing
Rewards == {0, 1, 2}

Losses == {Nothing, Some(0), Some(1)}

NoCall == [op |-> "none", evaluated |-> FALSE, signature |-> FALSE,
           hook |-> FALSE, paused |-> FALSE, prev_count |-> 0,
           hook_args |-> Nothing, hook_error |-> FALSE, raised |-> FALSE]

\* what the intervention callback does when it is invoked
HookOutcomes == {"ok", "raise"}

\* time.time() is far beyond both cooldowns when the manager is built
StartTime == AdvisorCooldown

NewWorld == [ag |-> NewManager, vm |-> NewViability, now |-> StartTime]

NoInject == [op |-> "none", result |-> Nothing, ctx |-> NotTried, adv |-> NotTried,
             first |-> "none", force |-> FALSE,
             domain |-> "LOGOS", margin |-> 0, warning_count |-> 0]

DetIdle ==
  /\ d = NewDetector(DetWindow, DetTrend, DetMin, CentralDecline, CentralStable,
                     DetWarnings, TRUE, TRUE, TRUE)
  /\ dlast = NoCall
  /\ streak = 0
  /\ pause_calls = << >>
  /\ records = 0

DetInit ==
  /\ d \in {NewDetector(DetWindow, DetTrend, DetMin, CentralDecline, CentralStable,
                        DetWarnings, ap, ap, ap) : ap \in BOOLEAN}
  /\ dlast = NoCall
  /\ streak = 0
  /\ pause_calls = << >>
  /\ records = 0

GroundInit ==
  /\ W = NewWorld
  /\ lastCall = NoInject
  /\ calls = 0

\* UnifiedTrainer.__init__: 1 central + per-pillar detectors (884-914)
Pillars == {"LOGOS", "PHYSIS"}

Units == {"central"} \cup Pillars

CentralDetector ==
  NewDetector(CentralWindow, CentralTrend, CentralMin, CentralDecline, CentralStable,
              CentralWarnings, TRUE, TRUE, TRUE)

PillarDetector_AutoPause ==
  NewDetector(PillarWindow, PillarTrend, PillarMin, PillarDecline, PillarStable,
              PillarWarnings, TRUE, FALSE, TRUE)

PillarDetector ==
  NewDetector(PillarWindow, PillarTrend, PillarMin, PillarDecline, PillarStable,
              PillarWarnings, FALSE, FALSE, FALSE)

NewTrainer ==
  [training_paused |-> FALSE,
   pillar_collapse_warnings |-> [p \in Pillars |-> 0],
   global_train_step |-> 0,
   current_domain |-> Nothing,
   latest_checkpoint |-> 0]

Idle == [pc |-> "idle", step |-> 0, steps |-> 0, bootstrap_steps |-> 0,
         todo |-> << >>, exit |-> "none"]

TrainInit ==
  /\ det = [u \in Units |-> IF u = "central" THEN CentralDetector ELSE PillarDetector]
  /\ trainer = NewTrainer
  /\ loop = Idle

NoCheck == [op |-> "none", result |-> Nothing, raised |-> FALSE,
            ops |-> 0, checks |-> 0, events |-> << >>]

MonInit ==
  /\ mon = NewMonitor
  /\ vlast = NoCheck

NoSwCall == [op |-> "none", domain |-> "CENTRAL", intervention |-> "ok",
             penalty |-> FALSE, log_det |-> 0, activations |-> Batch(0, "finite", 0),
             ops |-> 0, since |-> [dm \in SwDomains |-> << >>]]

SwInit ==
  /\ sw = NewWatchdog
  /\ swlast = NoSwCall

NoSync == [op |-> "none", alpha |-> RZero, passes |-> 0, restored |-> FALSE]

\* ContinuousThoughtMachine(...).state_dict(): one floating-point tensor of
\* the reasoning layers and one integer buffer (whole numbers stand for the
\* tensors)
StateDict(nlm, pairs_out) == [nlm |-> Rat(nlm, 1), pairs_out |-> Rat(pairs_out, 1)]

\* every specialist is spawned as a copy of the central model
RingIdle ==
  /\ ring = [dm \in {"LOGOS", "PHYSIS", "BIOS", "NOMOS", "PSYCHE", "SOPHIA", "OIKOS"} |->
               StateDict(0, 0)]
  /\ central = StateDict(0, 0)
  /\ ringlast = NoSync

\* the monitor state a checkpoint round trip is about
MonitorState(D, S, V, M) ==
  [warnings |-> [u \in DOMAIN D |-> D[u].warning_count],
   streaks |-> S.consecutive_hard_violations,
   weights |-> V.weights,
   cooldowns |-> <<M.last_context_injection, M.last_advisor_injection>>]

\* no checkpoint on disk
CkptIdle ==
  /\ ckpt = Nothing
  /\ cklast = [op |-> "none", raised |-> FALSE, ops |-> 0, fields |-> {},
               saved |-> [warnings |-> [u \in Units |-> 0],
                          streaks |-> NewWatchdog.consecutive_hard_violations,
                          weights |-> NewMonitor.weights,
                          cooldowns |-> <<0, 0>>]]

Init == DetInit /\ GroundInit /\ TrainInit /\ MonInit /\ SwInit /\ RingIdle /\ CkptIdle

\* ------------------------------------------------- stand-alone detector use
\* detector.record(step, reward, loss) with step = 0, 1, 2, ... ; the pause
\* callback only notes the step it is given, the intervention callback (if
\* it is invoked) returns or raises
DetRecord(reward, loss) ==
  /\ records < MaxRecords
  /\ \E r \in {Record(d, records, reward, loss)} :
       \E outcome \in (IF r.hook THEN HookOutcomes ELSE {"ok"}) :
         \E h \in {CallHook(r.hook, outcome)} :
           /\ d' = IF h.raised
                   THEN [r.d EXCEPT !.is_paused = d.is_paused,
                                    !.pause_step = d.pause_step,
                                    !.pauses_triggered = d.pauses_triggered]
                   ELSE r.d
           /\ dlast' = [op |-> "record", evaluated |-> r.evaluated,
                        signature |-> r.signature, hook |-> r.hook,
                        paused |-> r.paused /\ ~h.raised,
                        prev_count |-> d.warning_count,
                        hook_args |-> r.hook_args, hook_error |-> h.error,
                        raised |-> h.raised]
           /\ streak' = IF ~r.evaluated THEN streak
                        ELSE IF r.signature THEN streak + 1 ELSE 0
           /\ pause_calls' = IF r.paused /\ ~h.raised /\ d.pause_callback
                             THEN Append(pause_calls, records) ELSE pause_calls
  /\ records' = records + 1
  /\ UNCHANGED groundVars
  /\ UNCHANGED trainVars
  /\ UNCHANGED <<monVars, swVars, ringVars, ckptVars>>

\* detector.resume(), called to leave PAUSED
DetResume ==
  /\ d.is_paused
  /\ d' = Resume(d)
  /\ dlast' = [NoCall EXCEPT !.op = "resume", !.prev_count = d.warning_count]
  /\ streak' = 0
  /\ UNCHANGED <<pause_calls, records>>
  /\ UNCHANGED groundVars
  /\ UNCHANGED trainVars
  /\ UNCHANGED <<monVars, swVars, ringVars, ckptVars>>

DetNext ==
  \/ \E reward \in Rewards, loss \in Losses : DetRecord(reward, loss)
  \/ DetResume

SpecDetector == Init /\ [][DetNext]_vars

\* ------------------------------------------- stand-alone grounding manager
\* seconds per clock tick
TimeStep == ContextCooldown

MaxTime == StartTime + MaxTicks * TimeStep

Domains == {"LOGOS", "PHYSIS"}

\* margins (1/MarginScale): one of each severity class, at its threshold
Margins == {CriticalMargin - 1, CriticalMargin, ModerateMargin, LightMargin, 0}

Backend == {[oc |-> oc, oa |-> oa] :
              oc \in {"ok", "raise"}, oa \in {"ok", "raise"}}

ResultType(r) == IF r.result = Nothing THEN "None" ELSE TheValue(r.result).type

\* manager.check_and_inject(step, domain, viability_result, collapse_status)
GroundCheckAndInject(domain, margin, warning_count, in) ==
  /\ calls < MaxCalls
  /\ W.now <= MaxTime
  /\ LET r == CheckAndInject(W, calls, domain, margin >= 0, margin, warning_count, in)
     IN  /\ W' = r.w
         /\ lastCall' = [op |-> "check_and_inject", result |-> r.result,
                         ctx |-> r.ctx, adv |-> r.adv,
                         first |-> r.first, force |-> r.force, domain |-> domain,
                         margin |-> margin, warning_count |-> warning_count]
  /\ calls' = calls + 1
  /\ UNCHANGED detVars
  /\ UNCHANGED trainVars
  /\ UNCHANGED <<monVars, swVars, ringVars, ckptVars>>

\* wall-clock time passes between calls
GroundTick ==
  /\ W.now + TimeStep <= MaxTime
  /\ W' = [W EXCEPT !.now = @ + TimeStep]
  /\ UNCHANGED <<lastCall, calls>>
  /\ UNCHANGED detVars
  /\ UNCHANGED trainVars
  /\ UNCHANGED <<monVars, swVars, ringVars, ckptVars>>

GroundNext ==
  \/ \E domain \in Domains, margin \in Margins, wc \in 0..MaxWarning, in \in Backend :
        GroundCheckAndInject(domain, margin, wc, in)
  \/ GroundTick

GroundingInit ==
  DetIdle /\ GroundInit /\ TrainInit /\ MonInit /\ SwInit /\ RingIdle /\ CkptIdle

SpecGrounding == GroundingInit /\ [][GroundNext]_vars

\* ------------------------------------------------------------ orchestrator
\* values a training cycle reports
TrainRewards == Rewards

TrainLosses == {Some(0)}

\* margins check_viability may return to the orchestrator (E(t) is not part
\* of the modelled state)
TrainMargins == {CriticalMargin - 1, 0}

\* SearchInterface.search_web(query, domain) and
\* GroundingClient.request_grounding(pillar, query, logic_gap, step) do not
\* accept the keywords the manager passes (force=..., domain=...): the call
\* raises TypeError, which the manager swallows.
TrainerBackend == [oc |-> "raise", oa |-> "raise"]

\* UnifiedTrainer._on_collapse_intervention: the central detector's hook
OnCollapseIntervention(Wd, T, step, warning_count, margin) ==
  CheckAndInject(Wd, step,
                 IF T.current_domain = Nothing THEN "LOGOS"
                                               ELSE TheValue(T.current_domain),
                 margin >= 0, margin, warning_count, TrainerBackend)

\* UnifiedTrainer.save_checkpoint as load_latest_checkpoint sees it
SaveCheckpoint(T, step) ==
  [T EXCEPT !.latest_checkpoint = IF step > @ THEN step ELSE @]

\* UnifiedTrainer._on_collapse_detected, up to the status print that raises
\* (its format specification is invalid for any value)
OnCollapseDetected(T, step) ==
  [SaveCheckpoint(T, step) EXCEPT !.training_paused = TRUE]

\* the pillar part of log_metrics (2291-2301)
RecordPillar(D, T, domain, step, reward, loss) ==
  LET r == Record(D[domain], step, reward, loss)
      T1 == IF r.paused /\ D[domain].pause_callback
            THEN OnCollapseDetected(T, step) ELSE T
  IN  [det |-> [D EXCEPT ![domain] = r.d],
       trainer |-> IF r.evaluated /\ r.signature
                   THEN [T1 EXCEPT !.pillar_collapse_warnings[domain] =
                                       r.d.warning_count]
                   ELSE T1,
       raised |-> r.paused /\ D[domain].pause_callback]

\* train_parallel(steps, bootstrap_steps): load the latest checkpoint
TrainParallel(steps, bootstrap_steps) ==
  /\ loop.pc = "idle"
  /\ trainer' = [trainer EXCEPT !.global_train_step = trainer.latest_checkpoint]
  /\ loop' = [pc |-> "top", step |-> 1, steps |-> steps,
              bootstrap_steps |-> bootstrap_steps, todo |-> << >>,
              exit |-> "none"]
  /\ UNCHANGED <<det, detVars, groundVars>>
  /\ UNCHANGED <<monVars, swVars, ringVars, ckptVars>>

\* top of one iteration: the pause check, then the choice of active domains
LoopTop(active) ==
  /\ loop.pc = "top"
  /\ trainer' = [trainer EXCEPT !.global_train_step = @ + 1]
  /\ IF trainer.training_paused
     THEN loop' = [loop EXCEPT !.pc = "idle", !.exit = "paused"]
     ELSE loop' = [loop EXCEPT !.pc = "domains",
                               !.todo = IF loop.step <= loop.bootstrap_steps
                                        THEN <<"LOGOS">> ELSE active]
  /\ UNCHANGED <<det, detVars, groundVars>>
  /\ UNCHANGED <<monVars, swVars, ringVars, ckptVars>>

\* review_predict_verify_revisit(domain) ending in log_metrics(domain,
\* reward, loss): record to the central detector (its hook consults the
\* grounding manager, its pause callback saves, pauses and raises), then to
\* the domain's pillar detector
TrainCycle(reward, loss, margin) ==
  /\ loop.pc = "domains"
  /\ loop.todo # << >>
  /\ det["central"].total_samples < MaxCycles
  /\ LET domain == Head(loop.todo)
         step == trainer.global_train_step
         T0 == [trainer EXCEPT !.current_domain = Some(domain)]
         c  == Record(det["central"], step, reward, loss)
         h  == IF c.hook
               THEN OnCollapseIntervention(W, T0, step, c.d.warning_count, margin)
               ELSE NoIntervention(W)
         T1 == IF c.paused /\ c.d.pause_callback
               THEN OnCollapseDetected(T0, step) ELSE T0
         D1 == [det EXCEPT !["central"] = c.d]
     IN  /\ W' = h.w
         /\ IF c.paused /\ c.d.pause_callback
            THEN /\ det' = D1
                 /\ trainer' = T1
                 /\ loop' = [loop EXCEPT !.pc = "idle", !.exit = "exception"]
            ELSE LET T2 == IF c.d.is_paused
                           THEN [T1 EXCEPT !.training_paused = TRUE] ELSE T1
                     p  == IF domain \in Pillars
                           THEN RecordPillar(D1, T2, domain, step, reward, loss)
                           ELSE [det |-> D1, trainer |-> T2, raised |-> FALSE]
                 IN  /\ det' = p.det
                     /\ trainer' = p.trainer
                     /\ loop' = IF p.raised
                                THEN [loop EXCEPT !.pc = "idle", !.exit = "exception"]
                                ELSE [loop EXCEPT !.todo = Tail(@)]
  /\ UNCHANGED <<lastCall, calls, detVars>>
  /\ UNCHANGED <<monVars, swVars, ringVars, ckptVars>>

\* rest of the iteration once every active domain has trained: the periodic
\* viability check and dispatch, increment_step, then the next iteration
EndOfStep(margin) ==
  /\ loop.pc = "domains"
  /\ loop.todo = << >>
  /\ LET check == loop.step % ViabilityEvery = 0 /\ margin < 0
         h == IF check
              THEN CheckAndInject(W, loop.step,
                     IF trainer.current_domain = Nothing THEN "LOGOS"
                     ELSE TheValue(trainer.current_domain),
                     FALSE, margin, det["central"].warning_count, TrainerBackend)
              ELSE NoIntervention(W)
     IN  /\ W' = [h.w EXCEPT !.vm = IncrementStep(@)]
  /\ loop' = IF loop.step >= loop.steps
             THEN [loop EXCEPT !.pc = "idle", !.exit = "done"]
             ELSE [loop EXCEPT !.pc = "top", !.step = @ + 1]
  /\ UNCHANGED <<det, trainer, lastCall, calls, detVars>>
  /\ UNCHANGED <<monVars, swVars, ringVars, ckptVars>>

\* trainer.collapse_detector.resume(), called between runs
CentralResume ==
  /\ loop.pc = "idle"
  /\ det["central"].is_paused
  /\ det' = [det EXCEPT !["central"] = Resume(@)]
  /\ UNCHANGED <<trainer, loop, detVars, groundVars>>
  /\ UNCHANGED <<monVars, swVars, ringVars, ckptVars>>

\* random.sample(domains, k=2): two distinct domains in either order
ActiveDomains == {<<"LOGOS", "PHYSIS">>, <<"PHYSIS", "LOGOS">>}

TrainNext ==
  \/ \E steps \in {MaxTrainSteps} : \E b \in {0, steps} : TrainParallel(steps, b)
  \/ \E active \in ActiveDomains : LoopTop(active)
  \/ \E reward \in TrainRewards, loss \in TrainLosses, margin \in TrainMargins :
        TrainCycle(reward, loss, margin)
  \/ \E margin \in TrainMargins : EndOfStep(margin)
  \/ CentralResume

SpecTrainer == GroundingInit /\ [][TrainNext]_vars

\* ------------------------------------------------- ring synchronisation
\* UnifiedTrainer._get_ordered_domains (also the order of curriculum.domains
\* and so of specialist_branches)
Ordered == <<"LOGOS", "PHYSIS", "BIOS", "NOMOS", "PSYCHE", "SOPHIA", "OIKOS">>

\* (1 - 2*alpha) * self + alpha * prev + alpha * next
Blend(own, prev, nxt, alpha) ==
  RAdd(RMul(RSub(Rat(1, 1), RMul(Rat(2, 1), alpha)), own),
       RAdd(RMul(alpha, prev), RMul(alpha, nxt)))

\* ordered[(i - 1) % n] and ordered[(i + 1) % n] for the 1-based position i
PrevOf(i) == Ordered[((i - 2 + Len(Ordered)) % Len(Ordered)) + 1]

NextOf(i) == Ordered[(i % Len(Ordered)) + 1]

\* Buffers of the model that are not floating-point: the neuron pairs that
\* NeuralSynchronization samples with torch.randint (ctm_model.py 335-336).
NonFloating == {"pairs_out"}

\* a float stored into an integer tensor is truncated (values are >= 0)
Trunc(r) == Rat(r.num \div r.den, 1)

\* Module.load_state_dict(state): every tensor of the module takes the given
\* value by copy_, which converts it to the tensor's own dtype
LoadStateDict(target, state) ==
  [k \in DOMAIN target |->
     IF k \notin DOMAIN state THEN target[k]
     ELSE IF k \in NonFloating THEN Trunc(state[k]) ELSE state[k]]

\* one iteration of the loop of sync_neighbors (1666-1681): the specialist at
\* position i loads the blend of its current state with the two neighbours'
\* entries of source, key by key where both neighbours have the key
SyncOne(branches, source, i, alpha) ==
  LET curr  == Ordered[i]
      state == branches[curr]
      s_prev == source[PrevOf(i)]
      s_nxt  == source[NextOf(i)]
  IN  [branches EXCEPT ![curr] =
         LoadStateDict(state,
           [k \in DOMAIN state |->
              IF k \in DOMAIN s_prev /\ k \in DOMAIN s_nxt
              THEN Blend(state[k], s_prev[k], s_nxt[k], alpha)
              ELSE state[k]])]

\* the loop run over the positions in the given order, the neighbours read
\* from the snapshots taken before it
SyncNeighborsIn(order, branches, alpha) ==
  LET snapshots == branches
      run[j \in 0..Len(order)] ==
        IF j = 0 THEN branches ELSE SyncOne(run[j - 1], snapshots, order[j], alpha)
  IN  run[Len(order)]

\* a pass that reads the neighbours' current states instead of snapshots
SyncNeighbors_Live(branches, alpha) ==
  LET run[j \in 0..Len(Ordered)] ==
        IF j = 0 THEN branches ELSE SyncOne(run[j - 1], run[j - 1], j, alpha)
  IN  run[Len(Ordered)]

\* UnifiedTrainer.sync_neighbors: the specialists' state dicts after the pass
SyncNeighbors(branches, alpha) ==
  SyncNeighborsIn([i \in 1..Len(Ordered) |-> i], branches, alpha)

\* ------------------------------------------------------------- hub merge
\* acc = sum(history) / len(history) if history else 0.1; weight = max(0.1, acc)
SyncWeight(acc) == IF RLess(acc, Rat(1, 10)) THEN Rat(1, 10) ELSE acc

\* sum over the specialists in dict order
RSumOver(f) ==
  LET sum[i \in 0..Len(Ordered)] ==
        IF i = 0 THEN RZero ELSE RAdd(sum[i - 1], f[Ordered[i]])
  IN  sum[Len(Ordered)]

\* avg_specialist_state[k]: the specialists' tensors weighted by
\* weights[domain] / total_weight (1506-1513)
AvgSpecialistState(central_state, branches, weights) ==
  LET total_weight == RSumOver(weights)
      w(dm) == Rat(weights[dm].num * total_weight.den,
                   weights[dm].den * total_weight.num)
  IN  [k \in DOMAIN central_state |->
         RSumOver([dm \in DOMAIN branches |->
                     IF k \in DOMAIN branches[dm]
                     THEN RMul(branches[dm][k], w(dm)) ELSE RZero])]

\* reasoning layers take the full alpha, every other key alpha * 0.1 (1538-1544)
LogicKey(k) == k \in {"nlm", "synapse", "mhc", "engram"}

MergeAlpha(k, alpha) == IF LogicKey(k) THEN alpha ELSE RMul(alpha, Rat(1, 10))

\* new_state of sync_specialists_to_central: the EMA of every key of the
\* central state towards the specialists' weighted average (1530-1544)
MergedState(central_state, branches, weights, alpha) ==
  LET avg == AvgSpecialistState(central_state, branches, weights)
  IN  [k \in DOMAIN central_state |->
         RAdd(RMul(RSub(Rat(1, 1), MergeAlpha(k, alpha)), central_state[k]),
              RMul(MergeAlpha(k, alpha), avg[k]))]

\* max(weights.items(), key=lambda x: x[1])[0]: the first specialist in dict
\* order that no other outweighs
BestDomain(weights) ==
  Ordered[CHOOSE i \in 1..Len(Ordered) :
            /\ \A j \in 1..Len(Ordered) : ~RLess(weights[Ordered[i]], weights[Ordered[j]])
            /\ \A j \in 1..(i - 1) : RLess(weights[Ordered[j]], weights[Ordered[i]])]

\* UnifiedTrainer.sync_specialists_to_central(alpha): the merged state is
\* loaded into the central model, the watchdog checks the central model's
\* activations, and on a HARD intervention the central model is restored
\* from the best specialist and the watchdog's CENTRAL domain is reset.
\* accs is each specialist's curriculum accuracy.
SyncSpecialistsToCentral(central_state, branches, S, accs, alpha, activations) ==
  LET weights == [dm \in DOMAIN branches |-> SyncWeight(accs[dm])]
      merged  == LoadStateDict(central_state,
                   MergedState(central_state, branches, weights, alpha))
      r == Check(S, "CENTRAL", activations)
  IN  IF r.intervention = "hard" /\ ShouldHardReset(r.s, "CENTRAL")
      THEN [central |-> LoadStateDict(merged, branches[BestDomain(weights)]),
            s |-> ResetDomain(r.s, "CENTRAL"), restored |-> TRUE]
      ELSE [central |-> merged, s |-> r.s, restored |-> FALSE]

\* -------------------------------------------------- SpecRing: ring diffusion
\* Specialists with arbitrary parameters (one tensor "nlm" each, a whole
\* number at first) go through ring synchronisation passes.
Params == 0..MaxParam

Alphas == {Rat(1, 10), Rat(1, 4)}

RingInit ==
  /\ ring \in {[dm \in {Ordered[i] : i \in 1..Len(Ordered)} |-> StateDict(f[dm], 0)] :
                 f \in [{Ordered[i] : i \in 1..Len(Ordered)} -> Params]}
  /\ central = StateDict(0, 0)
  /\ ringlast = NoSync

RingSyncNeighbors(alpha) ==
  /\ ringlast.passes < MaxPasses
  /\ ring' = SyncNeighbors(ring, alpha)
  /\ ringlast' = [op |-> "sync_neighbors", alpha |-> alpha,
                  passes |-> ringlast.passes + 1, restored |-> FALSE]
  /\ UNCHANGED <<detVars, groundVars, trainVars, monVars, swVars, central, ckptVars>>

RingNext == \E alpha \in Alphas : RingSyncNeighbors(alpha)

RingSpecInit ==
  DetIdle /\ GroundInit /\ TrainInit /\ MonInit /\ SwInit /\ RingInit /\ CkptIdle

SpecRing == RingSpecInit /\ [][RingNext]_vars

\* ------------------------------------------------------ SpecHub: hub merge
\* The central model and its specialists after load_latest_checkpoint, then
\* hub merges and ring passes.  The integer buffer of a model is the one its
\* constructor drew (fresh) unless the checkpoint restored it (saved): the
\* central model is always restored, a specialist only if the checkpoint
\* holds a branch of its name.
BufferLayouts ==
  {[dm \in {Ordered[i] : i \in 1..Len(Ordered)} |-> 7],
   [dm \in {Ordered[i] : i \in 1..Len(Ordered)} |-> 3],
   [dm \in {Ordered[i] : i \in 1..Len(Ordered)} |-> IF dm = "LOGOS" THEN 7 ELSE 3]}

\* curriculum accuracies of the specialists: no history anywhere, or LOGOS
\* with a history of correct answers only
Accuracies ==
  {[dm \in {Ordered[i] : i \in 1..Len(Ordered)} |-> Rat(1, 10)],
   [dm \in {Ordered[i] : i \in 1..Len(Ordered)} |->
      IF dm = "LOGOS" THEN Rat(1, 1) ELSE Rat(1, 10)]}

\* activations of the central model on the test input: healthy or collapsed
HubBatches == {Batch(2, "finite", 0), Batch(2, "finite", -25)}

\* the watchdog as built, or after two earlier merges whose central
\* activations breached the hard threshold
Breached ==
  Check(Check(NewWatchdog, "CENTRAL", Batch(2, "finite", -25)).s,
        "CENTRAL", Batch(2, "finite", -25)).s

HubInit ==
  /\ \E f \in [{"LOGOS", "PHYSIS"} -> Params], b \in BufferLayouts :
        ring = [dm \in {Ordered[i] : i \in 1..Len(Ordered)} |->
                  StateDict(IF dm \in DOMAIN f THEN f[dm] ELSE 0, b[dm])]
  /\ central \in {StateDict(c, 7) : c \in Params}
  /\ ringlast = NoSync
  /\ sw \in {NewWatchdog, Breached}
  /\ swlast = NoSwCall

\* trainer.sync_specialists_to_central(alpha=0.2), as train_parallel calls it
HubSyncSpecialistsToCentral(accs, activations) ==
  /\ ringlast.passes < MaxMerges
  /\ LET r == SyncSpecialistsToCentral(central, ring, sw, accs, Rat(1, 5), activations)
     IN  /\ central' = r.central
         /\ sw' = r.s
         /\ ringlast' = [op |-> "sync_specialists_to_central", alpha |-> Rat(1, 5),
                         passes |-> ringlast.passes + 1, restored |-> r.restored]
  /\ UNCHANGED <<detVars, groundVars, trainVars, monVars, swlast, ring, ckptVars>>

\* trainer.sync_neighbors(alpha) between merges
HubSyncNeighbors(alpha) ==
  /\ ringlast.passes < MaxMerges
  /\ ring' = SyncNeighbors(ring, alpha)
  /\ ringlast' = [op |-> "sync_neighbors", alpha |-> alpha,
                  passes |-> ringlast.passes + 1, restored |-> FALSE]
  /\ UNCHANGED <<detVars, groundVars, trainVars, monVars, swVars, central, ckptVars>>

HubNext ==
  \/ \E accs \in Accuracies, activations \in HubBatches :
        HubSyncSpecialistsToCentral(accs, activations)
  \/ \E alpha \in Alphas : HubSyncNeighbors(alpha)

HubSpecInit == DetIdle /\ GroundInit /\ TrainInit /\ MonInit /\ HubInit /\ CkptIdle

SpecHub == HubSpecInit /\ [][HubNext]_vars

\* ------------------------------------------------ SpecCheckpoint: persistence
\* keys of full_state that carry models and monitors (curriculum and the DDA
\* router are not part of the modelled state)
CheckpointFields ==
  {"central_model", "specialist_branches", "step",
   "sigma_watchdog_history", "sigma_watchdog_interventions"}

\* full_state of UnifiedTrainer.save_checkpoint (2734-2745)
FullState(central_state, branches, S, step) ==
  [f \in CheckpointFields |->
     CASE f = "central_model" -> central_state
       [] f = "specialist_branches" -> branches
       [] f = "step" -> step
       [] f = "sigma_watchdog_history" -> S.history
       [] f = "sigma_watchdog_interventions" -> S.intervention_counts]

\* the file an older save_checkpoint wrote: only some of the keys
OlderSchema(full_state, fields) == [f \in fields |-> full_state[f]]

\* a dict without keys
EmptyDict == [k \in {} |-> 0]

\* UnifiedTrainer.load_latest_checkpoint on the file data, into the models
\* and the watchdog of the trainer that calls it.  raised: the subscript
\* checkpoint_data["central_model"] found no such key.
LoadLatestCheckpoint(data, model, branches, S) ==
  IF "central_model" \notin DOMAIN data
  THEN [raised |-> TRUE, central |-> model, ring |-> branches, s |-> S, step |-> 0]
  ELSE [raised |-> FALSE,
        central |-> LoadStateDict(model, data["central_model"]),
        ring |-> IF "specialist_branches" \in DOMAIN data
                 THEN [dm \in DOMAIN branches |->
                         IF dm \in DOMAIN data["specialist_branches"]
                         THEN LoadStateDict(branches[dm], data["specialist_branches"][dm])
                         ELSE branches[dm]]
                 ELSE branches,
        s |-> IF "sigma_watchdog_history" \in DOMAIN data
              THEN [S EXCEPT !.history = data["sigma_watchdog_history"],
                             !.intervention_counts =
                                IF "sigma_watchdog_interventions" \in DOMAIN data
                                THEN data["sigma_watchdog_interventions"]
                                ELSE EmptyDict]
              ELSE S,
        step |-> IF "step" \in DOMAIN data THEN data["step"] ELSE 0]

\* SigmaWatchdog.check subscripts history[domain] and, for every level but
\* "ok", intervention_counts[domain]: a missing key raises KeyError
CheckKeyError(S, domain, activations) ==
  \/ domain \notin DOMAIN S.history
  \/ /\ ComputeGramLogDet(activations) < ThresholdWarning
     /\ domain \notin DOMAIN S.intervention_counts

\* what check has written when the KeyError is raised
CheckInterrupted(S, domain, activations) ==
  IF domain \notin DOMAIN S.history THEN S
  ELSE LET log_det == ComputeGramLogDet(activations)
       IN  [S EXCEPT !.history[domain] = Tail_(Append(@, log_det), SwHistoryMax),
                     !.consecutive_hard_violations[domain] =
                        IF log_det < ThresholdHard THEN @ + 1 ELSE 0]

\* the central detector after n records of a falling reward at constant loss
RECURSIVE Declining(_, _)
Declining(D, n) ==
  IF n = 0 THEN D
  ELSE Record(Declining(D, n - 1), n, 0 - n, Some(0)).d

\* a freshly built model: the tensors its constructor drew
FreshModel == StateDict(0, 3)

\* A running orchestrator: the central detector has seen up to
\* CentralMin + CentralWarnings records, the watchdog up to two breaching
\* checks of the central model, the central model has trained.
CkInit ==
  /\ \E n \in {0} \cup (CentralMin..(CentralMin + CentralWarnings)) :
        det = [u \in Units |-> IF u = "central" THEN Declining(CentralDetector, n)
                                                 ELSE PillarDetector]
  /\ trainer = NewTrainer
  /\ loop = Idle
  /\ sw \in {NewWatchdog, Breached}
  /\ swlast = NoSwCall
  /\ central \in {StateDict(c, 7) : c \in Params}
  /\ ring = [dm \in {Ordered[i] : i \in 1..Len(Ordered)} |-> StateDict(0, 7)]
  /\ ringlast = NoSync

\* trainer.save_checkpoint(step); fields = CheckpointFields for this version
\* of the program, fewer for an older one
CkSave(fields) ==
  /\ cklast.ops < MaxCkOps
  /\ ckpt' = Some(OlderSchema(FullState(central, ring, sw, trainer.global_train_step),
                              fields))
  /\ cklast' = [op |-> "save", raised |-> FALSE, ops |-> cklast.ops + 1,
                fields |-> fields,
                saved |-> MonitorState(det, sw, mon, W.ag)]
  /\ trainer' = SaveCheckpoint(trainer, trainer.global_train_step)
  /\ UNCHANGED <<detVars, groundVars, monVars, swVars, ringVars, det, loop>>

\* a new process: UnifiedTrainer(...) is constructed and
\* load_latest_checkpoint() is called on it
CkLoad ==
  /\ cklast.ops < MaxCkOps
  /\ ckpt # Nothing
  /\ LET r == LoadLatestCheckpoint(TheValue(ckpt), FreshModel,
                  [dm \in DOMAIN ring |-> FreshModel], NewWatchdog)
     IN  /\ det' = [u \in Units |-> IF u = "central" THEN CentralDetector
                                                      ELSE PillarDetector]
         /\ trainer' = [NewTrainer EXCEPT !.global_train_step = r.step,
                                          !.latest_checkpoint = trainer.latest_checkpoint]
         /\ loop' = Idle
         /\ sw' = r.s
         /\ swlast' = NoSwCall
         /\ mon' = NewMonitor
         /\ vlast' = NoCheck
         /\ W' = [NewWorld EXCEPT !.now = W.now]
         /\ central' = r.central
         /\ ring' = r.ring
         /\ ringlast' = NoSync
         /\ cklast' = [cklast EXCEPT !.op = "load", !.raised = r.raised,
                                     !.ops = @ + 1]
  /\ UNCHANGED <<detVars, lastCall, calls, ckpt>>

\* sigma_watchdog.check(domain, activations, step) of the running trainer
CkCheck(domain, activations) ==
  /\ cklast.ops < MaxCkOps
  /\ IF CheckKeyError(sw, domain, activations)
     THEN /\ sw' = CheckInterrupted(sw, domain, activations)
          /\ cklast' = [cklast EXCEPT !.op = "check", !.raised = TRUE, !.ops = @ + 1]
     ELSE /\ sw' = Check(sw, domain, activations).s
          /\ cklast' = [cklast EXCEPT !.op = "check", !.raised = FALSE, !.ops = @ + 1]
  /\ UNCHANGED <<detVars, groundVars, trainVars, monVars, swlast, ringVars, ckpt>>

CkNext ==
  \/ \E fields \in SUBSET CheckpointFields : CkSave(fields)
  \/ CkLoad
  \/ \E domain \in SwDomains, activations \in HubBatches : CkCheck(domain, activations)

CkSpecInit == DetIdle /\ GroundInit /\ MonInit /\ CkInit /\ CkptIdle

SpecCheckpoint == CkSpecInit /\ [][CkNext]_vars

\* ------------------------------------------------ SpecViability: the monitor
\* A stand-alone ViabilityMonitor driven by its callers: samples of the four
\* series, collapse indicators, grounding events, steps and viability checks.
SemanticRewards == {0, 1}

Penalties == {-10, SignificantPenalty}

OodAccuracies == {0, 1}

Recorded(V, events) ==
  /\ vlast.ops < MaxMonitorOps
  /\ mon' = V
  /\ vlast' = [NoCheck EXCEPT !.op = "record", !.ops = vlast.ops + 1,
                              !.checks = vlast.checks, !.events = events]
  /\ UNCHANGED <<detVars, groundVars, trainVars, swVars, ringVars, ckptVars>>

MonSemanticReward(reward) == Recorded(RecordSemanticReward(mon, reward), vlast.events)

MonGroundingPenalty(penalty) == Recorded(RecordGroundingPenalty(mon, penalty), vlast.events)

MonHallucination(is_hallucination) == Recorded(RecordHallucination(mon, is_hallucination), vlast.events)

MonOodAccuracy(accuracy) == Recorded(RecordOodAccuracy(mon, accuracy), vlast.events)

MonCollapseIndicator(is_collapsing) == Recorded(RecordCollapseIndicator(mon, is_collapsing), vlast.events)

MonGroundingEvent ==
  Recorded(RecordGroundingEvent(mon, "context"), Append(vlast.events, mon.step_counter))

MonIncrementStep == Recorded(IncrementStep(mon), vlast.events)

MonCheckViability ==
  LET out == CheckViability(mon)
  IN  /\ vlast.ops < MaxMonitorOps
      /\ vlast.checks < MaxChecks
      /\ mon' = out.v
      /\ vlast' = [op |-> "check",
                   result |-> IF out.raised THEN Nothing ELSE Some(ViabilityResult(mon)),
                   raised |-> out.raised,
                   ops |-> vlast.ops + 1, checks |-> vlast.checks + 1,
                   events |-> vlast.events]
      /\ UNCHANGED <<detVars, groundVars, trainVars, swVars, ringVars, ckptVars>>

MonNext ==
  \/ \E reward \in SemanticRewards : MonSemanticReward(reward)
  \/ \E penalty \in Penalties : MonGroundingPenalty(penalty)
  \/ \E is_hallucination \in BOOLEAN : MonHallucination(is_hallucination)
  \/ \E accuracy \in OodAccuracies : MonOodAccuracy(accuracy)
  \/ \E is_collapsing \in BOOLEAN : MonCollapseIndicator(is_collapsing)
  \/ MonGroundingEvent
  \/ MonIncrementStep
  \/ MonCheckViability

SpecViability == GroundingInit /\ [][MonNext]_vars

\* ------------------------------------------------- SpecWatchdog: the watchdog
\* A SigmaWatchdog called directly (check, reset_domain) and through the
\* trainer's monitoring block.
LogDets == {0, -12, -17, ThresholdHard, -25}

Batches ==
  {Batch(1, "finite", 0)}
    \cup {Batch(2, "finite", v) : v \in LogDets}
    \cup {Batch(2, kind, 0) : kind \in {"nan", "inf", "error"}}

SwCalled(op, domain, activations, r, reset) ==
  /\ swlast.ops < MaxSwOps
  /\ sw' = r.s
  /\ swlast' = [op |-> op, domain |-> domain, intervention |-> r.intervention,
                penalty |-> r.penalty, log_det |-> r.log_det,
                activations |-> activations, ops |-> swlast.ops + 1,
                since |-> [swlast.since EXCEPT ![domain] =
                             IF reset THEN << >>
                             ELSE Append(@, r.log_det < ThresholdHard)]]
  /\ UNCHANGED <<detVars, groundVars, trainVars, monVars, ringVars, ckptVars>>

SwCheck(domain, activations) ==
  SwCalled("check", domain, activations, Check(sw, domain, activations), FALSE)

SwMonitor(domain, activations) ==
  LET r == MonitorModel(sw, domain, activations)
  IN  SwCalled("monitor", domain, activations, r,
               r.intervention = "hard" /\ r.s.history[domain] = << >>)

SwResetDomain(domain) ==
  /\ swlast.ops < MaxSwOps
  /\ sw' = ResetDomain(sw, domain)
  /\ swlast' = [NoSwCall EXCEPT !.op = "reset", !.domain = domain,
                                !.ops = swlast.ops + 1,
                                !.since = [swlast.since EXCEPT ![domain] = << >>]]
  /\ UNCHANGED <<detVars, groundVars, trainVars, monVars, ringVars, ckptVars>>

SwNext ==
  \/ \E domain \in SwDomains, activations \in Batches : SwCheck(domain, activations)
  \/ \E domain \in SwDomains, activations \in Batches : SwMonitor(domain, activations)
  \/ \E domain \in SwDomains : SwResetDomain(domain)

SpecWatchdog == GroundingInit /\ [][SwNext]_vars

\* ------------------------------------------------------------------ claims
\* C1: with auto_pause enabled the detector becomes PAUSED exactly on the
\* record() whose signature completes a streak of consecutive_warnings
\* consecutive evaluated records (never on a shorter streak), the pause
\* callback is invoked once, with that record's step; when every evaluated
\* record so far held the signature, that record is sample number
\* min_samples + consecutive_warnings - 1.
C1_PauseExactlyAtLimit ==
  [][ (d.auto_pause /\ dlast'.op = "record" /\ records' = records + 1)
        => /\ (~d.is_paused /\ d'.is_paused)
                <=> (~d.is_paused /\ dlast'.evaluated /\ dlast'.signature
                       /\ streak' = d.consecutive_warnings)
           /\ (~d.is_paused /\ d'.is_paused)
                => /\ pause_calls' = Append(pause_calls, records)
                   /\ d'.pause_step = Some(records)
           /\ (d.is_paused => d'.is_paused /\ pause_calls' = pause_calls)
           /\ (~d.is_paused /\ d'.is_paused /\ d'.total_warnings = streak'
                 /\ d'.total_samples = d.min_samples + d'.total_warnings - 1)
                => d'.total_samples = d.min_samples + d.consecutive_warnings - 1
    ]_vars

C1_Witness ==
  /\ d.auto_pause /\ d.is_paused
  /\ dlast.op = "record" /\ dlast.paused
  /\ d.total_samples = d.min_samples + d.consecutive_warnings - 1
  /\ pause_calls = <<records - 1>>

\* C2: after a record() that evaluates the signature and finds it not
\* holding, the consecutive-warning counter is 0 whatever it was before.
C2_ResetOnFailure ==
  (dlast.op = "record" /\ dlast.evaluated /\ ~dlast.signature)
     => d.warning_count = 0

C2_Witness ==
  /\ dlast.op = "record" /\ dlast.evaluated /\ ~dlast.signature
  /\ dlast.prev_count > d.consecutive_warnings
  /\ d.is_paused
  /\ d.warning_count = 0

\* C3: train_parallel breaks at its pause check exactly while the central
\* detector is PAUSED, so that after a pause and a resume() the next run
\* trains instead of breaking at the pause check.
C3_HaltsExactlyWhilePaused ==
  [][ loop.pc = "top" =>
        ((loop'.pc = "idle" /\ loop'.exit = "paused") <=> det["central"].is_paused)
    ]_vars

\* C4: the pillar detectors never halt the orchestrator: training_paused
\* becomes true only when the central detector has paused, and no pillar
\* detector ever triggers a pause (so none ever calls a pause callback),
\* however many consecutive warnings it has counted.
C4_PillarsNeverHalt ==
  [][ /\ (trainer'.training_paused /\ ~trainer.training_paused)
           => det'["central"].pauses_triggered > 0
      /\ \A p \in Pillars : ~det'[p].is_paused /\ det'[p].pauses_triggered = 0
    ]_vars

\* a pillar detector at its consecutive_warnings limit, training not paused
C4_Witness ==
  /\ \E p \in Pillars : det[p].warning_count >= det[p].consecutive_warnings
  /\ ~trainer.training_paused
  /\ det["central"].pauses_triggered = 0
  /\ loop.pc = "domains"

\* a check_and_inject call has just been made
Called == calls' = calls + 1

\* the remedy's cooldown had expired when the call was made
ContextReady == W.now - W.ag.last_context_injection >= ContextCooldown

AdvisorReady == W.now - W.ag.last_advisor_injection >= AdvisorCooldown

NoResult(status) == status \in {"cooldown", "raise"}

C6_SeverityByMargin ==
  [][ (Called /\ lastCall'.margin < 0)
        => /\ lastCall'.margin < CriticalMargin
                => /\ ResultType(lastCall') = "combined"
                   /\ lastCall'.force
                   /\ lastCall'.ctx \in {"ok", "raise"}
                   /\ lastCall'.adv \in {"ok", "raise"}
                   /\ TheValue(lastCall'.result).reason = "critical_viability"
           /\ (lastCall'.margin >= CriticalMargin /\ lastCall'.margin < LightMargin)
                => /\ ResultType(lastCall') \in {"None", "context", "advisor"}
                   /\ ~lastCall'.force
                   /\ lastCall'.first = PillarPreference(lastCall'.domain)
                   /\ W'.ag.interventions.combined = W.ag.interventions.combined
                   /\ lastCall'.ctx = "ok" => ContextReady
                   /\ lastCall'.adv = "ok" => AdvisorReady
                   /\ lastCall'.result # Nothing
                        => TheValue(lastCall'.result).reason =
                             IF lastCall'.margin < ModerateMargin
                             THEN "moderate_viability" ELSE "light_viability"
    ]_vars

C6_Witness ==
  /\ lastCall.op = "check_and_inject"
  /\ lastCall.margin = CriticalMargin
  /\ lastCall.warning_count >= 3
  /\ lastCall.result # Nothing
  /\ TheValue(lastCall.result).reason = "moderate_viability"
  /\ W.ag.interventions.combined = 0

\* C7: a remedy's timestamp is the time of its last successful dispatch, and
\* a dispatch that is not forced never succeeds less than the remedy's
\* cooldown (context 60 s, advisor 120 s) after it; only forced dispatches
\* succeed inside the cooldown window.
C7_CooldownRespected ==
  [][ Called
        => /\ (lastCall'.ctx = "ok" /\ ~lastCall'.force) => ContextReady
           /\ (lastCall'.adv = "ok" /\ ~lastCall'.force) => AdvisorReady
           /\ W'.ag.last_context_injection =
                IF lastCall'.ctx = "ok" THEN W'.now ELSE W.ag.last_context_injection
           /\ W'.ag.last_advisor_injection =
                IF lastCall'.adv = "ok" THEN W'.now ELSE W.ag.last_advisor_injection
           /\ lastCall'.force => ResultType(lastCall') = "combined"
    ]_vars

C7_Witness ==
  /\ lastCall.op = "check_and_inject"
  /\ ~lastCall.force
  /\ lastCall.ctx = "ok"
  /\ W.ag.interventions.context = 2
  /\ lastCall.adv = "cooldown"

\* C8: the preferred-remedy dispatch tries the preferred remedy first and the
\* other one, still cooldown-gated, only if the preferred produced no result;
\* it returns None only when neither was dispatched, and the matching
\* fallback counter grows exactly when the alternative succeeded.
C8_PreferredThenFallback ==
  [][ (Called /\ lastCall'.first # "none" /\ ~lastCall'.force)
        => LET pref  == PillarPreference(lastCall'.domain)
               ps    == IF pref = "advisor" THEN lastCall'.adv ELSE lastCall'.ctx
               os    == IF pref = "advisor" THEN lastCall'.ctx ELSE lastCall'.adv
               fb    == IF pref = "advisor" THEN "fallback_to_context"
                                            ELSE "fallback_to_advisor"
               nofb  == IF pref = "advisor" THEN "fallback_to_advisor"
                                            ELSE "fallback_to_context"
               other == IF pref = "advisor" THEN "context" ELSE "advisor"
           IN  /\ lastCall'.first = pref
               /\ ps # "skip"
               /\ (os # "skip") <=> NoResult(ps)
               /\ (lastCall'.result = Nothing) <=> (NoResult(ps) /\ NoResult(os))
               /\ ps = "ok" => ResultType(lastCall') = pref
               /\ os = "ok" => ResultType(lastCall') = other
               /\ lastCall'.ctx = "ok" => ContextReady
               /\ lastCall'.adv = "ok" => AdvisorReady
               /\ W'.ag.interventions[fb] =
                    W.ag.interventions[fb] + (IF os = "ok" THEN 1 ELSE 0)
               /\ W'.ag.interventions[nofb] = W.ag.interventions[nofb]
    ]_vars

C8_Witness ==
  /\ lastCall.op = "check_and_inject"
  /\ lastCall.first = "advisor" /\ ~lastCall.force
  /\ lastCall.adv = "cooldown" /\ lastCall.ctx = "ok"
  /\ ResultType(lastCall) = "context"
  /\ W.ag.interventions.fallback_to_context = 1

\* C9: a CRITICAL (forced) dispatch attempts both remedies whatever the
\* cooldowns, attempts the advisor also when the context remedy failed, and
\* always returns a result of type 'combined', even when both fail.
C9_CriticalAlwaysCombined ==
  [][ (Called /\ (lastCall'.force
                    \/ (lastCall'.margin < CriticalMargin)
                    \/ (lastCall'.margin >= LightMargin /\ lastCall'.warning_count >= 3)))
        => /\ lastCall'.force
           /\ lastCall'.ctx \in {"ok", "raise"}
           /\ lastCall'.adv \in {"ok", "raise"}
           /\ ResultType(lastCall') = "combined"
           /\ TheValue(lastCall'.result).context =
                (IF lastCall'.ctx = "ok" THEN "text" ELSE "none")
           /\ TheValue(lastCall'.result).advice =
                (IF lastCall'.adv = "ok" THEN "text" ELSE "none")
           /\ W'.ag.interventions.combined = W.ag.interventions.combined + 1
    ]_vars

C9_Witness ==
  /\ lastCall.op = "check_and_inject"
  /\ lastCall.force
  /\ lastCall.ctx = "raise" /\ lastCall.adv = "ok"
  /\ ResultType(lastCall) = "combined"
  /\ W.now - W.ag.last_context_injection < ContextCooldown

\* C10: a remedy whose backend call raises yields no result and no exception,
\* and leaves that remedy's cooldown timestamp, its intervention counter and
\* the ViabilityMonitor's grounding events as they were.
C10_FailSoft ==
  [][ Called
        => /\ lastCall'.ctx = "raise"
                => /\ W'.ag.last_context_injection = W.ag.last_context_injection
                   /\ W'.ag.interventions.context = W.ag.interventions.context
                   /\ ResultType(lastCall') # "context"
           /\ lastCall'.adv = "raise"
                => /\ W'.ag.last_advisor_injection = W.ag.last_advisor_injection
                   /\ W'.ag.interventions.advisor = W.ag.interventions.advisor
                   /\ ResultType(lastCall') # "advisor"
           /\ (lastCall'.ctx # "ok" /\ lastCall'.adv # "ok")
                => /\ W'.vm = W.vm
                   /\ ~lastCall'.force => lastCall'.result = Nothing
           /\ EventCount(W'.vm.grounding_events) =
                EventCount(W.vm.grounding_events)
                  + (IF lastCall'.ctx = "ok" THEN 1 ELSE 0)
                  + (IF lastCall'.adv = "ok" THEN 1 ELSE 0)
    ]_vars

C10_Witness ==
  /\ lastCall.op = "check_and_inject"
  /\ lastCall.ctx = "raise" /\ lastCall.adv = "raise"
  /\ ~lastCall.force
  /\ lastCall.result = Nothing
  /\ W.ag.last_context_injection = 0 /\ W.ag.last_advisor_injection = 0
  /\ W.vm.grounding_events = << >>

\* the ledger after the events of the call's successful remedies (context
\* is dispatched before advisor whenever both succeed)
EventsOf(V, call) ==
  LET v1 == IF call.ctx = "ok" THEN RecordGroundingEvent(V, "emergency_context")
            ELSE V
  IN  IF call.adv = "ok" THEN RecordGroundingEvent(v1, "emergency_advisor") ELSE v1

\* C11: every successful remedy dispatch records exactly one grounding event
\* (emergency_context / emergency_advisor), stamps that remedy's cooldown
\* with the time of the call and adds one to that remedy's counter; so the
\* events emitted always number interventions.context + interventions.advisor.
C11_DispatchBookkeeping ==
  [][ Called
        => /\ W'.vm = EventsOf(W.vm, lastCall')
           /\ lastCall'.ctx = "ok"
                => /\ W'.ag.last_context_injection = W.now
                   /\ W'.ag.interventions.context = W.ag.interventions.context + 1
           /\ lastCall'.adv = "ok"
                => /\ W'.ag.last_advisor_injection = W.now
                   /\ W'.ag.interventions.advisor = W.ag.interventions.advisor + 1
           /\ EventCount(W'.vm.grounding_events) =
                W'.ag.interventions.context + W'.ag.interventions.advisor
    ]_vars

C11_Witness ==
  /\ lastCall.op = "check_and_inject"
  /\ lastCall.ctx = "ok" /\ lastCall.adv = "ok"
  /\ calls = 2
  /\ W.ag.interventions.context = 2 /\ W.ag.interventions.advisor = 1
  /\ EventCount(W.vm.grounding_events) = 3

CheckStep == vlast'.op = "check"

TheResult(v) == TheValue(v.result)

\* C12: check_viability returns margin = C_eff - E(t) and viable = (margin >= 0),
\* and appends one entry to the violations list exactly when margin < 0; with
\* C_eff = 0 and all E(t) components 0 the result is margin 0, viable, and
\* no violation is recorded.
C12_MarginAndViolation ==
  [][ CheckStep
        => LET r == ViabilityResult(mon)
           IN  /\ ~vlast'.raised => vlast'.result = Some(r)
               /\ r.c_eff = CEff(mon)
               /\ r.e_total = WeightedSum(mon.weights, r.components)
               /\ r.margin = RSub(r.c_eff, r.e_total)
               /\ r.viable <=> r.margin.num >= 0
               /\ IF r.margin.num < 0
                  THEN /\ Len(mon'.violations) = Len(mon.violations) + 1
                       /\ SubSeq(mon'.violations, 1, Len(mon.violations)) = mon.violations
                       /\ Last(mon'.violations).margin = r.margin
                       /\ Last(mon'.violations).step = mon.step_counter
                  ELSE mon'.violations = mon.violations
               /\ (r.c_eff = RZero /\ \A c \in Components : r.components[c] = RZero)
                    => /\ r.margin = RZero
                       /\ r.viable
                       /\ mon'.violations = mon.violations
    ]_vars

\* a check that found the monitor not viable, after one that was the edge case
C12_Witness ==
  /\ vlast.op = "check"
  /\ ~vlast.raised
  /\ ~TheResult(vlast).viable
  /\ TheResult(vlast).margin.num < 0
  /\ Len(mon.violations) = 1
  /\ vlast.checks = 2

\* what a check_viability call gave its caller
Outcome(v) ==
  IF v.raised THEN [raised |-> TRUE]
  ELSE [raised |-> FALSE, margin |-> TheResult(v).margin,
        components |-> TheResult(v).components]

\* C13: two consecutive check_viability() calls with no sample, grounding
\* event or step increment in between return identical margin and identical
\* E(t) components.
C13_Idempotent ==
  [][ (vlast.op = "check" /\ CheckStep) => Outcome(vlast') = Outcome(vlast) ]_vars

\* two checks in a row on a monitor with a non-zero component, the first of
\* which was due for the adaptive weight update
C13_Witness ==
  /\ vlast.op = "check" /\ vlast.checks = 2 /\ vlast.ops = vlast.checks + 3
  /\ ~vlast.raised
  /\ mon.last_weight_update = 1
  /\ TheResult(vlast).margin.num < 0
  /\ Len(mon.violations) = 2

\* the adaptive weight update is executed by this check_viability call
UpdateDue(V) == V.step_counter - V.last_weight_update >= UpdateEvery

WeightTotal(w) ==
  RAdd(RAdd(w["e1_semantic_degradation"], w["e2_penalty_frequency"]),
       RAdd(w["e3_hallucination"], w["e4_ood_degradation"]))

\* C14: after any execution of the adaptive weight update, from any reachable
\* monitor state, every one of the four E(t) weights is at least 0.01 and the
\* weights sum to 1 within 1e-6.
C14_WeightInvariant ==
  [][ (CheckStep /\ UpdateDue(mon))
        => /\ ~vlast'.raised
           /\ \A c \in Components : ~RLess(mon'.weights[c], Rat(1, 100))
           /\ LET off == RSub(WeightTotal(mon'.weights), Rat(1, 1))
              IN  ~RLess(Rat(1, 1000000), Rat(Abs(off.num), off.den))
    ]_vars

\* the steps on which grounding events were recorded, and those of them the
\* window still holds: the ViabilityWindow most recent ones
EventSteps == {vlast.events[i] : i \in 1..Len(vlast.events)}

WindowSteps ==
  {t \in EventSteps : Cardinality({u \in EventSteps : u > t}) < ViabilityWindow}

EventsAt(steps) == Cardinality({i \in 1..Len(vlast.events) : vlast.events[i] \in steps})

SeriesOf(c) ==
  CASE c = "e1_semantic_degradation" -> mon.semantic_rewards
    [] c = "e2_penalty_frequency"    -> mon.grounding_penalties
    [] c = "e3_hallucination"        -> mon.hallucination_counts
    [] c = "e4_ood_degradation"      -> mon.ood_accuracy

\* the value the last record_* call of component c reported
Reported(c) == Last(mon.history[c])

\* C16 as stated: each of the four E(t) components is reported as 0 while
\* fewer than 10 (RateMin) samples of its series have been recorded.
C16_Original ==
  \A c \in Components :
    (mon.history[c] # << >> /\ Len(SeriesOf(c)) < RateMin) => Reported(c) = RZero

Hits(c, x) == IF c = "e2_penalty_frequency" THEN x < SignificantPenalty ELSE x = 1

\* C16 (amended): the grounding-penalty frequency and the hallucination rate
\* are reported as 0 while fewer than 10 (RateMin) samples of their series
\* have been recorded and from then on are the share of hits among the
\* trailing samples; the reward and OOD degradation rates are reported as 0
\* only for the first sample and from the 2nd sample on are the positive part
\* of oldest minus newest trailing sample divided by their number.
C16_SampleMinimum ==
  \A c \in Components :
    mon.history[c] # << >> =>
      LET s == SeriesOf(c)
          n == Len(s)
      IN  /\ Len(mon.history[c]) = n
          /\ IF c \in {"e2_penalty_frequency", "e3_hallucination"}
             THEN LET k == IF n < TrailLong THEN n ELSE TrailLong
                  IN  Reported(c) =
                        IF n < RateMin THEN RZero
                        ELSE Rat(Cardinality({i \in (n - k + 1)..n : Hits(c, s[i])}), k)
             ELSE LET k == IF n < TrailShort THEN n ELSE TrailShort
                      drop == s[n - k + 1] - s[n]
                  IN  Reported(c) =
                        IF n < DegradationMin THEN RZero
                        ELSE Rat(IF drop > 0 THEN drop ELSE 0, k)

\* a degradation rate of 1/2 reported from two rewards, next to a penalty
\* frequency that stayed 0 until its RateMin-th sample
C16_Witness ==
  /\ Len(mon.semantic_rewards) = DegradationMin
  /\ Reported("e1_semantic_degradation") = Rat(1, 2)
  /\ Len(mon.grounding_penalties) = RateMin
  /\ Reported("e2_penalty_frequency") = Rat(1, 1)
  /\ \A i \in 1..(RateMin - 1) : mon.history["e2_penalty_frequency"][i] = RZero

\* a step that is a SigmaWatchdog.check, made directly or by the trainer
SwChecked == swlast'.op \in {"check", "monitor"}

Breach(log_det) == log_det < ThresholdHard

\* the checks of model dm since its last reset end with at least k breaches
BreachesBefore(dm, k) ==
  LET prior == swlast.since[dm]
  IN  /\ Len(prior) >= k
      /\ \A i \in (Len(prior) - k + 1)..Len(prior) : prior[i]

\* C17: SigmaWatchdog.check returns HARD exactly when the current score is
\* below the hard threshold and so were the immediately preceding
\* CONSECUTIVE_HARD_REQUIRED-1 checks of that model since its last reset; a
\* breach with a shorter streak returns SOFT, and any check whose score is not
\* below the hard threshold resets that model's streak counter to 0.
C17_HardOnThirdBreach ==
  [][ SwChecked
        => LET dm == swlast'.domain
               breach == Breach(swlast'.log_det)
               third == breach /\ BreachesBefore(dm, ConsecutiveHardRequired - 1)
           IN  /\ swlast'.intervention = "hard" <=> third
               /\ (breach /\ ~third) => swlast'.intervention = "soft"
               /\ ~breach => sw'.consecutive_hard_violations[dm] = 0
    ]_vars

\* HARD on the third breach in a row, the first two answered SOFT
C17_Witness ==
  /\ swlast.op = "check" /\ swlast.intervention = "hard"
  /\ swlast.since[swlast.domain] = <<FALSE, TRUE, TRUE, TRUE>>
  /\ sw.intervention_counts[swlast.domain].soft = 2
  /\ sw.consecutive_hard_violations[swlast.domain] = ConsecutiveHardRequired

Untouched(dm) ==
  \A o \in SwDomains \ {dm} :
    /\ sw'.history[o] = sw.history[o]
    /\ sw'.consecutive_hard_violations[o] = sw.consecutive_hard_violations[o]

\* C18 as stated: immediately after a check fires HARD for a model, that
\* model's score history is empty and its hard-streak counter is 0, other
\* models untouched.
C18_Original ==
  [][ (SwChecked /\ swlast'.intervention = "hard")
        => /\ sw'.history[swlast'.domain] = << >>
           /\ sw'.consecutive_hard_violations[swlast'.domain] = 0
           /\ Untouched(swlast'.domain)
    ]_vars

\* C18 (amended): immediately after the trainer's monitoring block has handled
\* a check that fired HARD for a model (it calls reset_domain), that model's
\* score history is empty and its hard-streak counter is 0, both cleared
\* together and other models untouched, so the next breach of that model does
\* not re-trigger HARD; check alone keeps the history and the counter, and
\* reset_domain clears both whenever it is called.
C18_ResetByCaller ==
  [][ /\ (swlast'.op = "monitor" /\ swlast'.intervention = "hard")
           => /\ sw'.history[swlast'.domain] = << >>
              /\ sw'.consecutive_hard_violations[swlast'.domain] = 0
              /\ Untouched(swlast'.domain)
      /\ (swlast'.op = "check" /\ swlast'.intervention = "hard")
           => /\ sw'.history[swlast'.domain] # << >>
              /\ sw'.consecutive_hard_violations[swlast'.domain] >= ConsecutiveHardRequired
              /\ Untouched(swlast'.domain)
      /\ swlast'.op = "reset"
           => /\ sw'.history[swlast'.domain] = << >>
              /\ sw'.consecutive_hard_violations[swlast'.domain] = 0
              /\ Untouched(swlast'.domain)
      /\ (SwChecked /\ swlast.op = "monitor" /\ swlast.intervention = "hard"
            /\ swlast'.domain = swlast.domain)
           => swlast'.intervention # "hard"
    ]_vars

\* the breach that follows a handled HARD is answered SOFT
C18_Witness ==
  /\ swlast.op = "monitor" /\ swlast.intervention = "soft"
  /\ Breach(swlast.log_det)
  /\ sw.intervention_counts[swlast.domain].hard = 1
  /\ sw.history[swlast.domain] = <<swlast.log_det>>
  /\ sw.consecutive_hard_violations[swlast.domain] = 1

\* a batch of fewer than 2 vectors, or one whose Gram log-determinant cannot
\* be computed
Degenerate(a) == a.n < 2 \/ a.kind # "finite"

CountsTowardStreak ==
  \/ swlast'.intervention = "hard"
  \/ sw'.consecutive_hard_violations[swlast'.domain] =
       sw.consecutive_hard_violations[swlast'.domain] + 1

\* C19 as stated: a degenerate activation batch (fewer than 2 vectors, or a
\* singular Gram matrix) is scored with an extreme-negative sentinel so that
\* the returned tier is not OK and counts toward the hard streak.
C19_Original ==
  [][ (SwChecked /\ Degenerate(swlast'.activations))
        => /\ swlast'.log_det = LogDetSentinel
           /\ swlast'.intervention # "ok"
           /\ CountsTowardStreak
    ]_vars

\* C19 (amended): no activation batch makes check raise; a batch whose Gram
\* log-determinant comes out NaN or infinite, or whose computation raises
\* RuntimeError, is scored with the sentinel -999, so that the returned tier
\* is SOFT or HARD and counts toward the hard streak; a batch of fewer than 2
\* vectors is scored 0.0, which returns OK and resets the streak.
C19_DegenerateBatches ==
  [][ SwChecked
        => LET a == swlast'.activations
           IN  /\ swlast'.intervention \in {"ok", "warning", "soft", "hard"}
               /\ (a.n >= 2 /\ a.kind # "finite")
                    => /\ swlast'.log_det = LogDetSentinel
                       /\ swlast'.intervention \in {"soft", "hard"}
                       /\ CountsTowardStreak
               /\ a.n < 2
                    => /\ swlast'.log_det = 0
                       /\ swlast'.intervention = "ok"
                       /\ sw'.consecutive_hard_violations[swlast'.domain] = 0
    ]_vars

\* a NaN log-determinant that completed a streak of three, after a
\* single-vector batch had been answered OK
C19_Witness ==
  /\ swlast.op = "check" /\ swlast.activations.kind = "nan"
  /\ swlast.log_det = LogDetSentinel
  /\ swlast.intervention = "hard"
  /\ swlast.since[swlast.domain] = <<FALSE, TRUE, TRUE, TRUE>>
  /\ sw.history[swlast.domain][1] = LogDetSentinel

\* C20: after one ring-diffusion pass sync_neighbors(alpha), every specialist i
\* holds (1-2*alpha)*own_i + alpha*prev_i + alpha*next_i, where own, prev and
\* next are the states the specialists had before the pass began (neighbours
\* taken cyclically in the fixed order); no new state depends on an
\* already-updated neighbour, so the result does not depend on the order in
\* which specialists are processed.
C20_RingDiffusion ==
  [][ ringlast'.op = "sync_neighbors" /\ ringlast'.passes = ringlast.passes + 1
        => LET n == Len(Ordered)
               alpha == ringlast'.alpha
           IN  /\ \A i \in 1..n :
                    ring'[Ordered[i]].nlm =
                      Blend(ring[Ordered[i]].nlm, ring[PrevOf(i)].nlm,
                            ring[NextOf(i)].nlm, alpha)
               /\ ring' = SyncNeighborsIn([i \in 1..n |-> n + 1 - i], ring, alpha)
               /\ ring' = SyncNeighborsIn([i \in 1..n |-> ((i + 2) % n) + 1], ring, alpha)
    ]_vars

\* a second pass over specialists that the first pass left different from
\* each other
C20_Witness ==
  /\ ringlast.passes = 2
  /\ ring["LOGOS"].nlm # ring["PHYSIS"].nlm
  /\ ring["LOGOS"].nlm.den > 10

\* C21: hub merge and ring diffusion modify only floating-point tensors: every
\* non-floating buffer of a merged-into model (the central model in a hub
\* merge that does not end in a restore, every specialist in a ring pass)
\* has after the merge exactly the value it had before.
C21_NonFloatingVerbatim ==
  [][ (ringlast'.passes = ringlast.passes + 1 /\ ~ringlast'.restored)
        => \A k \in NonFloating :
             /\ ringlast'.op = "sync_specialists_to_central" => central'[k] = central[k]
             /\ ringlast'.op = "sync_neighbors"
                  => \A dm \in DOMAIN ring : ring'[dm][k] = ring[dm][k]
    ]_vars

\* C22: saving a checkpoint and loading it into a freshly constructed
\* orchestrator reproduces the monitor state of the time of the save: the
\* collapse detectors' consecutive-warning counters, the watchdog's
\* hard-streak counters, the viability weights and the remedy cooldown
\* timestamps.
C22_RoundTrip ==
  [][ (/\ cklast'.op = "load" /\ cklast'.ops = cklast.ops + 1
       /\ cklast.op = "save" /\ cklast.fields = CheckpointFields)
        => /\ ~cklast'.raised
           /\ MonitorState(det', sw', mon', W'.ag) = cklast.saved
    ]_vars

\* C23: loading a checkpoint written with an older schema (any subset of the
\* persisted fields missing) never fails and leaves every monitor whose
\* fields are missing in its fresh initial state, so that no later
\* SigmaWatchdog.check fails.
C23_OlderSchemaTolerated ==
  [][ /\ (cklast'.op = "load" /\ cklast'.ops = cklast.ops + 1)
            => /\ ~cklast'.raised
               /\ ("sigma_watchdog_history" \notin cklast.fields
                     \/ "sigma_watchdog_interventions" \notin cklast.fields)
                    => sw' = NewWatchdog
      /\ (cklast'.op = "check" /\ cklast'.ops = cklast.ops + 1) => ~cklast'.raised
    ]_vars

C25_ThirdWarningCombined ==
  [][ (/\ det'["central"].total_samples = det["central"].total_samples + 1
       /\ det["central"].warning_count = CentralWarnings - 1
       /\ det'["central"].warning_count = CentralWarnings)
        => /\ W'.ag.interventions.combined = W.ag.interventions.combined + 1
           /\ Len(W'.ag.intervention_history) = Len(W.ag.intervention_history) + 1
           /\ Last(W'.ag.intervention_history).type = "combined"
    ]_vars

\* C26: pausing is cooperative: when the central detector pauses during
\* orchestrator step s, the remaining work of step s still runs (the
\* iteration goes on with the remaining active domains, then the viability
\* check), and the loop stops only at the pause check at the top of step
\* s+1.
C26_CooperativePause ==
  [][ (/\ loop.pc = "domains"
       /\ ~det["central"].is_paused
       /\ det'["central"].is_paused)
        => /\ loop'.pc = "domains"
           /\ loop'.todo = Tail(loop.todo)
           /\ loop'.exit = "none"
    ]_vars

\* C27 (as stated): the optimal-stopping-step estimate is set one time
\* only, at the detector's first warning, to (first-warning step -
\* trend_window), and no later warning, streak, pause or resume changes it.
C27_EstimateOneTime ==
  [][ /\ (d.first_warning_step = Nothing /\ d'.first_warning_step # Nothing)
           => d'.optimal_step_estimate = Some(records - d.trend_window)
      /\ d.optimal_step_estimate # Nothing
           => d'.optimal_step_estimate = d.optimal_step_estimate
    ]_vars

\* C27 (amended): the estimate is set at the first detection of every
\* warning streak (the consecutive count going from 0 to 1) to (that step -
\* trend_window); no other record, no pause and no resume() changes it, and
\* only first_warning_step is set one time.
C27_EstimatePerStreak ==
  [][ /\ (d.warning_count = 0 /\ d'.warning_count = 1)
           => d'.optimal_step_estimate = Some(records - d.trend_window)
      /\ ~(d.warning_count = 0 /\ d'.warning_count = 1)
           => d'.optimal_step_estimate = d.optimal_step_estimate
      /\ d.first_warning_step # Nothing
           => d'.first_warning_step = d.first_warning_step
    ]_vars

\* a later streak has moved the estimate away from the first warning
C27_Witness ==
  /\ d.first_warning_step # Nothing
  /\ d.optimal_step_estimate # Nothing
  /\ d.optimal_step_estimate # Some(TheValue(d.first_warning_step) - d.trend_window)

\* C28: every InterventionRecord appended to the manager's intervention
\* history (context, advisor and combined alike) is paired with at least
\* one GroundingEvent recorded in the ViabilityMonitor by the same dispatch.
C28_RecordPairedWithEvent ==
  [][ (Len(W'.ag.intervention_history) > Len(W.ag.intervention_history))
        => EventCount(W'.vm.grounding_events) > EventCount(W.vm.grounding_events)
    ]_vars

\* C29: the pause callback fires at most once per pause episode: while the
\* detector stays PAUSED, record() keeps evaluating the signature and
\* further detections keep incrementing the consecutive count, but neither
\* the pause callback nor pauses_triggered is touched again until resume();
\* after resume() a new pause requires consecutive_warnings fresh
\* consecutive detections.
C29_PauseOncePerEpisode ==
  [][ /\ (d.is_paused /\ dlast'.op = "record")
           => /\ d'.is_paused
              /\ d'.pauses_triggered = d.pauses_triggered
              /\ pause_calls' = pause_calls
              /\ ~dlast'.paused
              /\ dlast'.evaluated
              /\ dlast'.signature => d'.warning_count = d.warning_count + 1
              /\ ~dlast'.signature => d'.warning_count = 0
      /\ (d'.pauses_triggered # d.pauses_triggered)
           => /\ ~d.is_paused /\ d'.is_paused
              /\ d'.pauses_triggered = d.pauses_triggered + 1
              /\ streak' >= d.consecutive_warnings
              /\ d.pause_callback => pause_calls' = Append(pause_calls, records)
      /\ (pause_calls' # pause_calls)
           => d'.pauses_triggered = d.pauses_triggered + 1
    ]_vars

\* a detection recorded while PAUSED took the count beyond the limit, with
\* one pause and one callback so far
C29_Witness ==
  /\ dlast.op = "record" /\ dlast.signature
  /\ d.is_paused
  /\ d.warning_count > d.consecutive_warnings
  /\ d.pauses_triggered = 1
  /\ Len(pause_calls) = 1

\* C30: a viability violation with margin < -0.1 fully decides the outcome
\* of check_and_inject and the collapse-warning ladder is never consulted:
\* a MODERATE or LIGHT violation with both remedies on cooldown returns None
\* even when warning_count >= 3; the warning count is consulted only when
\* the result is viable or the non-viable margin lies in [-0.1, 0).
C30_ViabilityDecides ==
  [][ (lastCall'.op = "check_and_inject" /\ calls' = calls + 1)
        => /\ lastCall'.margin < LightMargin
                => /\ lastCall'.result # Nothing
                        => TheValue(lastCall'.result).reason \in
                             {"critical_viability", "moderate_viability",
                              "light_viability"}
                   /\ lastCall'.force <=> lastCall'.margin < CriticalMargin
                   /\ (/\ lastCall'.margin >= CriticalMargin
                       /\ lastCall'.ctx = "cooldown"
                       /\ lastCall'.adv = "cooldown")
                        => /\ lastCall'.result = Nothing
                           /\ W' = W
           /\ lastCall'.margin >= LightMargin
                => /\ lastCall'.result # Nothing
                        => TheValue(lastCall'.result).reason \in
                             {"collapse_warning_2", "collapse_critical"}
                   /\ lastCall'.warning_count >= 3
                        => ResultType(lastCall') = "combined"
                   /\ lastCall'.warning_count <= 1
                        => lastCall'.result = Nothing
    ]_vars

\* a MODERATE or LIGHT violation at three warnings found both remedies on
\* cooldown and returned None
C30_Witness ==
  /\ lastCall.op = "check_and_inject"
  /\ lastCall.margin < LightMargin /\ lastCall.margin >= CriticalMargin
  /\ lastCall.warning_count >= 3
  /\ lastCall.ctx = "cooldown" /\ lastCall.adv = "cooldown"
  /\ lastCall.result = Nothing

====
